---------------------------- MODULE Spec2Model ----------------------------
(***************************************************************************)
(* A model of the handwriting canvas editor: the snapshot history          *)
(* (hooks/useHistory), the editor that owns it (EditorView), the App       *)
(* component above it, and the canvas gesture engine (components/Canvas).  *)
(*                                                                         *)
(* Numbers.  JavaScript numbers are modelled as exact rationals <<n, d>>   *)
(* in lowest terms with d > 0, extended with the three non-finite values   *)
(* of IEEE arithmetic: <<0, 0>> is NaN, <<1, 0>> is +Infinity and          *)
(* <<-1, 0>> is -Infinity.  Rounding of floating point is not modelled.    *)
(*                                                                         *)
(* Rendering.  A handler runs with the values of the last render; React    *)
(* renders, and runs the passive effects of that render, before the next   *)
(* event is handled.  The closures that outlive a render (the pending      *)
(* recognition call, the confirmation dialog) keep the history index of    *)
(* the render that created them.                                           *)
(***************************************************************************)
EXTENDS Integers, Sequences, FiniteSets, TLC

VARIABLES
    history,                \* useHistory: the snapshot sequence
    index,                  \* useHistory: the cursor (0-based)
    instanceState,          \* App: appData.instances[activeSubject]
    synced,                 \* EditorView: `state` as of the last effect run
    isLoading,              \* App: loading flag
    error,                  \* App: error message or Null
    answer,                 \* App: displayed answer or Null
    confirmation,           \* EditorView: open confirmation dialog or Null
    recognition,            \* the handleRecognize call awaiting its result
    pendingAnswer,          \* the handleGetAnswer call awaiting its result
    crashed,                \* an updater threw while React rendered
    viewTransform,          \* EditorView: {scale, offsetX, offsetY}
    tool,                   \* App: current tool
    dpr,                    \* window.devicePixelRatio
    pointers,               \* Canvas: Map pointerId -> client point, in insertion order
    lastGesture,            \* Canvas: {dist, mid} of the two-contact gesture
    isDrawing,              \* Canvas
    currentStrokePoints,    \* Canvas
    latestPointerPosition,  \* Canvas
    draggedItem,            \* Canvas
    selectionRect,          \* Canvas
    selectionStartPoint,    \* Canvas
    drawingShape,           \* Canvas
    now,                    \* Date.now()
    last,                   \* bookkeeping: the last operation and its inputs
    gesture,                \* bookkeeping: the events of the gesture under way
    requests,               \* bookkeeping: the commits the last operation asked for
    steps                   \* bookkeeping: viewport operations so far

vars == <<history, index, instanceState, synced, isLoading, error, answer,
          confirmation, recognition, pendingAnswer, crashed, viewTransform, tool,
          dpr, pointers, lastGesture, isDrawing, currentStrokePoints,
          latestPointerPosition, draggedItem, selectionRect, selectionStartPoint,
          drawingShape, now, last, gesture, requests, steps>>

historyVars == <<history, index>>
appVars     == <<instanceState, synced, isLoading, error, answer, confirmation,
                 recognition, pendingAnswer, crashed>>
canvasVars  == <<pointers, lastGesture, isDrawing, currentStrokePoints,
                 latestPointerPosition, draggedItem, selectionRect,
                 selectionStartPoint, drawingShape>>

Null == [null |-> TRUE]
\* The error state holds a message or Null; a message is kept in a record so
\* that it stands beside Null as a value of the same kind.
ErrorMessage(text) == [message |-> text]

-----------------------------------------------------------------------------
(* Bounds of the model.                                                    *)
MaxHist   == 3      \* snapshots of the history, in the editor and the viewport
MaxLog    == 4      \* snapshots of the history, on the canvas
MaxPages  == 2      \* pages of a document
MaxClock  == 1      \* clock ticks
MaxPoints == 2      \* points recorded in one pen stroke
MaxSteps  == 2      \* viewport operations of one run

-----------------------------------------------------------------------------
(* JavaScript numbers.                                                     *)

Abs(i) == IF i < 0 THEN -i ELSE i
Sgn(i) == IF i < 0 THEN -1 ELSE IF i > 0 THEN 1 ELSE 0

RECURSIVE Gcd(_, _)
Gcd(a, b) == IF b = 0 THEN a ELSE Gcd(b, a % b)

\* The number n/d in canonical form; d = 0 gives NaN or an infinity.
Num(n, d) ==
    IF d = 0 THEN <<Sgn(n), 0>>
    ELSE LET g == Gcd(Abs(n), Abs(d))
         IN  <<(Sgn(d) * n) \div g, Abs(d) \div g>>

I(i)  == <<i, 1>>
NaN   == <<0, 0>>
PosInf == <<1, 0>>
IsNaN(a)    == a = NaN
IsFinite(a) == a[2] # 0

Neg(a) == <<-a[1], a[2]>>
Add(a, b) ==
    IF a[2] = 0 /\ b[2] = 0
    THEN (IF a = b THEN a ELSE NaN)
    ELSE Num(a[1] * b[2] + b[1] * a[2], a[2] * b[2])
Sub(a, b) == Add(a, Neg(b))
Mul(a, b) == Num(a[1] * b[1], a[2] * b[2])
Div(a, b) == Num(a[1] * b[2], a[2] * b[1])

\* a < b as JavaScript compares: false when either side is NaN.
Rank(a) == IF a[2] = 0 THEN a[1] ELSE 0
Lt(a, b) ==
    IF IsNaN(a) \/ IsNaN(b) THEN FALSE
    ELSE IF a[2] = 0 \/ b[2] = 0 THEN Rank(a) < Rank(b)
    ELSE a[1] * b[2] < b[1] * a[2]
Gt(a, b) == Lt(b, a)
Le(a, b) == ~IsNaN(a) /\ ~IsNaN(b) /\ ~Lt(b, a)
Ge(a, b) == Le(b, a)

MathMin(a, b) == IF IsNaN(a) \/ IsNaN(b) THEN NaN ELSE IF Lt(b, a) THEN b ELSE a
MathMax(a, b) == IF IsNaN(a) \/ IsNaN(b) THEN NaN ELSE IF Lt(a, b) THEN b ELSE a
MathAbs(a)    == <<Abs(a[1]), a[2]>>

\* Math.sqrt, exact: the inputs of the model are chosen so that every root taken
\* is rational.
SqrtBound == 400
ISqrt(n) == CHOOSE r \in 0..SqrtBound : r * r = n
MathSqrt(a) ==
    IF IsNaN(a) \/ a[1] < 0 THEN NaN
    ELSE IF a[2] = 0 THEN a
    ELSE <<ISqrt(a[1]), ISqrt(a[2])>>

\* Math.round: the nearest integer, halves upwards.
MathRound(a) ==
    IF a[2] = 0 THEN a
    ELSE I((2 * a[1] + a[2]) \div (2 * a[2]))

-----------------------------------------------------------------------------
(* Geometry kernel.                                                        *)

Pt(x, y) == [x |-> x, y |-> y]
IPt(x, y) == Pt(I(x), I(y))

getDistance(p1, p2) ==
    MathSqrt(Add(Mul(Sub(p2.x, p1.x), Sub(p2.x, p1.x)),
                 Mul(Sub(p2.y, p1.y), Sub(p2.y, p1.y))))

getMidpoint(p1, p2) ==
    Pt(Div(Add(p1.x, p2.x), I(2)), Div(Add(p1.y, p2.y), I(2)))

boundsIntersect(b1, b2) ==
    /\ Lt(b1.x, Add(b2.x, b2.width))
    /\ Gt(Add(b1.x, b1.width), b2.x)
    /\ Lt(b1.y, Add(b2.y, b2.height))
    /\ Gt(Add(b1.y, b1.height), b2.y)

pointInBounds(p, b) ==
    /\ Ge(p.x, b.x) /\ Le(p.x, Add(b.x, b.width))
    /\ Ge(p.y, b.y) /\ Le(p.y, Add(b.y, b.height))

-----------------------------------------------------------------------------
(* The document (AppState) and its parts.                                  *)

Stroke(id, points, strokeWidth, color) ==
    [id |-> id, points |-> points, tool |-> "pen", strokeWidth |-> strokeWidth,
     color |-> color]

Bounds(x, y, width, height) == [x |-> x, y |-> y, width |-> width, height |-> height]

RecognizedText(id, text, bounds, fontFamily, fontSize) ==
    [id |-> id, text |-> text, bounds |-> bounds, fontFamily |-> fontFamily,
     fontSize |-> fontSize]

Page(id, strokes, texts) == [id |-> id, strokes |-> strokes, texts |-> texts]

initialCanvasStyle ==
    [backgroundColor |-> "#fef3c7", fontFamily |-> "Caveat", fontSize |-> I(48),
     backgroundType |-> "copybook"]

initialToolSettings ==
    [pen    |-> [size |-> I(5), color |-> "#333333"],
     eraser |-> [size |-> I(20)],
     shape  |-> [type |-> "rectangle", size |-> I(5), color |-> "#333333"]]

createInitialState ==
    [pages |-> <<Page(now, <<>>, <<>>)>>,
     currentPageIndex |-> 0,
     canvasStyle |-> initialCanvasStyle,
     isGlobalStyleEnabled |-> FALSE,
     isSpellingCorrectionEnabled |-> FALSE,
     toolSettings |-> initialToolSettings,
     answerLength |-> "compact"]

\* Sequence helpers (Array.prototype.map; filter is SelectSeq).
SeqMap(s, f(_)) == [i \in 1..Len(s) |-> f(s[i])]
Range(s) == {s[i] : i \in 1..Len(s)}

\* JSON.stringify of a number: a non-finite number is written as null.
JsonNull == <<"null">>
JsonNumber(a) == IF a[2] = 0 THEN JsonNull ELSE a
JsonPoint(p)  == [x |-> JsonNumber(p.x), y |-> JsonNumber(p.y)]
JsonBounds(b) == [x |-> JsonNumber(b.x), y |-> JsonNumber(b.y),
                  width |-> JsonNumber(b.width), height |-> JsonNumber(b.height)]
JsonStroke(s) == [s EXCEPT !.points = SeqMap(s.points, JsonPoint),
                           !.strokeWidth = JsonNumber(s.strokeWidth)]
JsonText(t)   == [t EXCEPT !.bounds = JsonBounds(t.bounds),
                           !.fontSize = JsonNumber(t.fontSize)]
JsonPage(p)   == [p EXCEPT !.strokes = SeqMap(p.strokes, JsonStroke),
                           !.texts = SeqMap(p.texts, JsonText)]
\* JSON.stringify of an AppState: every state of the program is built by
\* spreading an earlier one, so the key order is the same in all of them.
JsonStringify(st) == [st EXCEPT !.pages = SeqMap(st.pages, JsonPage)]

-----------------------------------------------------------------------------
(* hooks/useHistory.                                                       *)

state    == history[index + 1]
canUndo  == index > 0
canRedo  == index < Len(history) - 1

\* currentHistory[index] for the index k a setState closure holds: undefined
\* when the history has become shorter than that.
HasPresent(k) == k + 1 <= Len(history)
Present(k)    == history[k + 1]

\* What one setState call makes of the hook's state hs = [h, i, crashed, log],
\* for the index k its closure holds; log lists the calls and their new
\* states.  setStateValue is setState(newState); setState is setState(f) with
\* an updater f that dereferences the present snapshot: on an undefined
\* present f throws while React renders, and React unmounts the tree.

\* Variant for the sensitivity of C3: the cursor set one past the last snapshot.
PushedCursorPastEnd(hs, k, newState) ==
    [hs EXCEPT !.h = Append(SubSeq(hs.h, 1, k + 1), newState),
               !.i = Len(SubSeq(hs.h, 1, k + 1)) + 1]

Pushed(hs, k, newState) ==
    [hs EXCEPT !.h = Append(SubSeq(hs.h, 1, k + 1), newState),
               !.i = Len(SubSeq(hs.h, 1, k + 1))]

Asked(hs, k, newState) ==
    [hs EXCEPT !.log = Append(@, [k |-> k, newState |-> newState])]

\* Variant for the sensitivity of C1: setState without the comparison of
\* line 23, so that every call pushes.
setStateValueAlwaysPushes(hs, k, newState) ==
    Pushed(Asked(hs, k, newState), k, newState)

setStateValue(hs, k, newState) ==
    IF JsonStringify(hs.h[k + 1]) = JsonStringify(newState)
    THEN Asked(hs, k, newState)
    ELSE Pushed(Asked(hs, k, newState), k, newState)

setState(hs, k, f(_)) ==
    IF hs.crashed THEN hs
    ELSE IF k + 1 > Len(hs.h) THEN [hs EXCEPT !.crashed = TRUE]
    ELSE setStateValue(hs, k, f(hs.h[k + 1]))

undo(hs) == IF hs.i > 0 THEN [hs EXCEPT !.i = @ - 1] ELSE hs

\* Variant for the sensitivity of C4: redo without its guard.
redoUnguarded(hs) == [hs EXCEPT !.i = @ + 1]

redo(hs) == IF hs.i < Len(hs.h) - 1 THEN [hs EXCEPT !.i = @ + 1] ELSE hs

\* The hook's state now, and the step to a new one.
Hook == [h |-> history, i |-> index, crashed |-> crashed, log |-> <<>>]
HookBecomes(hs) ==
    /\ history' = hs.h
    /\ index' = hs.i
    /\ crashed' = hs.crashed
    /\ requests' = hs.log

-----------------------------------------------------------------------------
(* EditorView: the operations that commit to the history.                  *)

currentPage == state.pages[state.currentPageIndex + 1]

WithCurrentPage(st, newPage) ==
    [st EXCEPT !.pages[st.currentPageIndex + 1] = newPage]

updateCurrentPage(hs, k, updater(_)) ==
    setState(hs, k,
             LAMBDA st : WithCurrentPage(st, updater(st.pages[st.currentPageIndex + 1])))

\* Variant for the sensitivity of C6: the new strokes go in front of the page's.
handleSetStrokesInFront(hs, k, newStrokes) ==
    updateCurrentPage(hs, k, LAMBDA page : [page EXCEPT !.strokes = newStrokes \o @])

\* handleSetStrokes(prev => [...prev, ...newStrokes])
handleSetStrokes(hs, k, newStrokes) ==
    updateCurrentPage(hs, k, LAMBDA page : [page EXCEPT !.strokes = @ \o newStrokes])

handleTextUpdate(hs, k, textId, newBounds) ==
    updateCurrentPage(hs, k, LAMBDA page :
        [page EXCEPT !.texts =
            SeqMap(@, LAMBDA t : IF t.id = textId THEN [t EXCEPT !.bounds = newBounds]
                                                  ELSE t)])

handleItemsDelete(hs, k, strokeIds, textIds) ==
    IF strokeIds = {} /\ textIds = {} THEN hs
    ELSE updateCurrentPage(hs, k, LAMBDA page :
            [page EXCEPT !.strokes = SelectSeq(@, LAMBDA s : s.id \notin strokeIds),
                         !.texts   = SelectSeq(@, LAMBDA t : t.id \notin textIds)])

handleClear(hs, k) ==
    updateCurrentPage(hs, k, LAMBDA page : [page EXCEPT !.strokes = <<>>, !.texts = <<>>])

\* The ruled snap: the baseline goes to the nearest multiple of the line spacing.
lineSpacing == 80
\* Variant for the sensitivity of C31: the top of the text, and not its
\* baseline, goes to the nearest rule line.
SnapYOfTop(y, fontSize) ==
    Mul(MathRound(Div(y, I(lineSpacing))), I(lineSpacing))

SnapY(y, fontSize) ==
    Sub(Mul(MathRound(Div(Add(y, fontSize), I(lineSpacing))), I(lineSpacing)), fontSize)

\* The updater of handleRecognize, for the call's captured style and bounds.
RecognizedPage(page, call, result, id) ==
    LET cs == call.canvasStyle
        finalBounds ==
            IF cs.backgroundType = "copybook"
            THEN [call.bounds EXCEPT !.y = SnapY(call.bounds.y, cs.fontSize)]
            ELSE call.bounds
    IN  [page EXCEPT !.strokes = <<>>,
                     !.texts = Append(@, RecognizedText(id, result, finalBounds,
                                                        cs.fontFamily, cs.fontSize))]

\* JSON.stringify of the tool settings (the comparison of the second sync effect).
JsonToolSettings(ts) ==
    [pen    |-> [ts.pen EXCEPT !.size = JsonNumber(@)],
     eraser |-> [size |-> JsonNumber(ts.eraser.size)],
     shape  |-> [ts.shape EXCEPT !.size = JsonNumber(@)]]

\* A render has effects to run: `state` changed (first effect), or the tool
\* settings of the instance and of the history state differ (second effect).
StateChanged == state # synced
ToolSettingsDiffer ==
    JsonToolSettings(instanceState.toolSettings) # JsonToolSettings(state.toolSettings)
Dirty == StateChanged \/ ToolSettingsDiffer

\* The user can act: the tree is mounted, the effects of the last render have
\* run, and no confirmation dialog covers the screen.
Mounted == ~crashed
Idle    == Mounted /\ ~Dirty /\ confirmation = Null

Op(name) == [op |-> name]

-----------------------------------------------------------------------------
(* components/Canvas: the viewport.                                        *)

MIN_ZOOM == <<1, 5>>
MAX_ZOOM == <<5, 1>>

ViewTransform(scale, offsetX, offsetY) ==
    [scale |-> scale, offsetX |-> offsetX, offsetY |-> offsetY]

\* The canvas fills the window: getBoundingClientRect() has left = top = 0.
Physical(e) == Pt(Mul(e.x, dpr), Mul(e.y, dpr))

ToWorld(vt, physical) ==
    Pt(Div(Sub(physical.x, vt.offsetX), vt.scale),
       Div(Sub(physical.y, vt.offsetY), vt.scale))

getPointInWorldSpace(e) == ToWorld(viewTransform, Physical(e))

ClampZoom(s) == MathMin(MathMax(s, MIN_ZOOM), MAX_ZOOM)

\* The offset that keeps the focal physical point in place when the scale
\* goes from vt.scale to newScale.
ZoomOffset(vt, focal, newScale) ==
    LET zoomFactor == Div(newScale, vt.scale)
    IN  Pt(Sub(focal.x, Mul(Sub(focal.x, vt.offsetX), zoomFactor)),
           Sub(focal.y, Mul(Sub(focal.y, vt.offsetY), zoomFactor)))

wheelTransform(vt, e, deltaY) ==
    LET physical == Physical(e)
        scroll   == Mul(deltaY, <<-1, 200>>)
        newScale == ClampZoom(Mul(vt.scale, Add(I(1), scroll)))
        off      == ZoomOffset(vt, physical, newScale)
    IN  ViewTransform(newScale, off.x, off.y)

\* The two-contact branch of handlePointerMove.
pinchTransform(vt, lg, p1, p2) ==
    LET currentDist == getDistance(p1, p2)
        currentMid  == getMidpoint(p1, p2)
        scaleFactor == Div(currentDist, lg.dist)
        newScale    == ClampZoom(Mul(vt.scale, scaleFactor))
        off         == ZoomOffset(vt, Physical(currentMid), newScale)
        panDX       == Mul(Sub(currentMid.x, lg.mid.x), dpr)
        panDY       == Mul(Sub(currentMid.y, lg.mid.y), dpr)
    IN  ViewTransform(newScale, Add(off.x, panDX), Add(off.y, panDY))

\* The single-contact hand branch: the offset moves by the event's movement.
panTransform(vt, movement) ==
    [vt EXCEPT !.offsetX = Add(@, Mul(movement.x, dpr)),
               !.offsetY = Add(@, Mul(movement.y, dpr))]

-----------------------------------------------------------------------------
(* components/Canvas: the table of active contacts (a Map, in insertion     *)
(* order).                                                                 *)

PointerIds(ps) == {ps[i].id : i \in 1..Len(ps)}
PointersHas(ps, id) == id \in PointerIds(ps)
PointersGet(ps, id) == (CHOOSE i \in 1..Len(ps) : ps[i].id = id)
PointersSet(ps, id, p) ==
    IF PointersHas(ps, id)
    THEN [i \in 1..Len(ps) |-> IF ps[i].id = id THEN [id |-> id, p |-> p] ELSE ps[i]]
    ELSE Append(ps, [id |-> id, p |-> p])
PointersDelete(ps, id) == SelectSeq(ps, LAMBDA c : c.id # id)

-----------------------------------------------------------------------------
(* components/Canvas: hit-testing.                                          *)

strokes == currentPage.strokes
texts   == currentPage.texts

StrokeHit(stroke, point, eraserRadius) ==
    LET strokeWidth == Div(stroke.strokeWidth, I(2))
    IN  \E i \in 1..Len(stroke.points) :
            Lt(getDistance(stroke.points[i], point), Add(eraserRadius, strokeWidth))

TextHit(text, point, eraserRadius) ==
    LET b == text.bounds
    IN  /\ Gt(point.x, Sub(b.x, eraserRadius))
        /\ Lt(point.x, Add(Add(b.x, b.width), eraserRadius))
        /\ Gt(point.y, Sub(b.y, eraserRadius))
        /\ Lt(point.y, Add(Add(b.y, b.height), eraserRadius))

EraserRadius == Div(state.toolSettings.eraser.size, I(2))
StrokeIdsToDelete(point) ==
    {strokes[i].id : i \in {j \in 1..Len(strokes) : StrokeHit(strokes[j], point, EraserRadius)}}
TextIdsToDelete(point) ==
    {texts[i].id : i \in {j \in 1..Len(texts) : TextHit(texts[j], point, EraserRadius)}}

eraseAtPoint(hs, k, point) ==
    IF StrokeIdsToDelete(point) # {} \/ TextIdsToDelete(point) # {}
    THEN handleItemsDelete(hs, k, StrokeIdsToDelete(point), TextIdsToDelete(point))
    ELSE hs

\* [...texts].reverse().find(t => pointInBounds(point, t.bounds))
TextsAt(point) == {i \in 1..Len(texts) : pointInBounds(point, texts[i].bounds)}
\* Variant for the sensitivity of C30: the texts are searched in the order of
\* the page, and the oldest match is taken.
TextToDragOldest(point) ==
    texts[CHOOSE i \in TextsAt(point) : \A j \in TextsAt(point) : i <= j]
TextToDrag(point) == texts[CHOOSE i \in TextsAt(point) : \A j \in TextsAt(point) : j <= i]

-----------------------------------------------------------------------------
(* components/Canvas: shape synthesis.  Angles are counted in turns, an     *)
(* angle of a radians being a/(2*pi) turns, so that the samples of an       *)
(* ellipse walk, at i/steps turns, are exact.  Sines and cosines are taken  *)
(* by a rational formula that is exact at the multiples of a quarter turn   *)
(* and within 0.002 elsewhere, and the square root of 3 by a fraction: the  *)
(* coordinates of the round and the regular kinds are approximate, their    *)
(* step counts, point counts, ids, widths and colours are not.             *)

\* Math.floor, and Math.floor(Math.PI * a) for the a >= 0 of the model: pi
\* lies between the two fractions, and the floor is taken where they agree.
MathFloor(a) == IF a[2] = 0 THEN a ELSE I(a[1] \div a[2])
PiBelow == <<333, 106>>
PiAbove == <<355, 113>>
FloorOfPiTimes(a) ==
    CHOOSE n \in {MathFloor(Mul(PiBelow, a))} : n = MathFloor(Mul(PiAbove, a))

\* Math.sin and Math.cos of an angle of t turns.
HalfWave(h) ==
    LET n == h[1]
        d == h[2]
    IN  Num(16 * n * (d - n), 5 * d * d - 4 * n * (d - n))
SinTurns(t) ==
    LET f == Sub(t, MathFloor(t))
    IN  IF Le(f, <<1, 2>>) THEN HalfWave(Mul(I(2), f))
        ELSE Neg(HalfWave(Sub(Mul(I(2), f), I(1))))
CosTurns(t) == SinTurns(Add(t, <<1, 4>>))
\* Math.sqrt(3)
Sqrt3 == <<97, 56>>

\* Variant for the sensitivity of C35: Math.sign(v), which is 0 for 0.
MathSign(v) == IF Lt(v, I(0)) THEN I(-1) ELSE IF Gt(v, I(0)) THEN I(1) ELSE v
\* Math.sign(v || 1)
SignOrOne(v) == IF Lt(v, I(0)) THEN I(-1) ELSE I(1)

\* The step count of an ellipse walk and its samples, for i from 0 while
\* i <= steps (stepCount here).
EllipseSteps(radiusX, radiusY) ==
    MathMax(I(32), Div(FloorOfPiTimes(Add(radiusX, radiusY)), I(4)))
EllipseWalk(cx, cy, radiusX, radiusY, stepCount) ==
    [k \in 1..(MathFloor(stepCount)[1] + 1) |->
        LET turns == Div(I(k - 1), stepCount)
        IN  Pt(Add(cx, Mul(radiusX, CosTurns(turns))),
               Add(cy, Mul(radiusY, SinTurns(turns))))]

\* The corners of a regular polygon or of a star, and the first again.
PolygonWalk(cx, cy, radius, sides, star) ==
    LET corners ==
            [k \in 1..(IF star THEN 2 * sides ELSE sides) |->
                LET r == IF star /\ (k - 1) % 2 = 1 THEN Div(radius, <<5, 2>>)
                         ELSE radius
                    turns == Add(<<-1, 4>>, Num(k - 1, sides))
                IN  Pt(Add(cx, Mul(r, CosTurns(turns))),
                       Add(cy, Mul(r, SinTurns(turns))))]
    IN  Append(corners, corners[1])


createStrokesForShape(start, end, type, strokeWidth, color) ==
    LET idBase == now
        x1 == start.x   y1 == start.y
        x2 == end.x     y2 == end.y
        width  == Sub(x2, x1)
        height == Sub(y2, y1)
        cx == Add(x1, Div(width, I(2)))
        cy == Add(y1, Div(height, I(2)))
        rx == Div(MathAbs(width), I(2))
        ry == Div(MathAbs(height), I(2))
        one(points) == <<Stroke(idBase, points, strokeWidth, color)>>
        seg(k, a, b) == Stroke(idBase + k, <<a, b>>, strokeWidth, color)
        thin == Mul(strokeWidth, <<7, 10>>)
    IN  CASE type = "rectangle" ->
               one(<<Pt(x1, y1), Pt(x2, y1), Pt(x2, y2), Pt(x1, y2), Pt(x1, y1)>>)
          [] type = "square" ->
               LET size == MathMax(MathAbs(width), MathAbs(height))
                   finalX2 == Add(x1, Mul(size, SignOrOne(width)))
                   finalY2 == Add(y1, Mul(size, SignOrOne(height)))
               IN  one(<<Pt(x1, y1), Pt(finalX2, y1), Pt(finalX2, finalY2),
                         Pt(x1, finalY2), Pt(x1, y1)>>)
          [] type \in {"circle", "oval"} ->
               LET radiusX == rx
                   radiusY == IF type = "circle" THEN rx ELSE ry
               IN  IF Lt(radiusX, I(1)) \/ Lt(radiusY, I(1)) THEN <<>>
                   ELSE one(EllipseWalk(cx, cy, radiusX, radiusY,
                                        EllipseSteps(radiusX, radiusY)))
          [] type = "line" -> one(<<Pt(x1, y1), Pt(x2, y2)>>)
          [] type = "arrow" ->
               \* cos and sin of angle -+ pi/6 by the addition formulas, with
               \* cos(angle) = dx/dist and sin(angle) = dy/dist of atan2.
               LET dist == getDistance(start, end)
                   cosA == IF dist = I(0) THEN I(1) ELSE Div(width, dist)
                   sinA == IF dist = I(0) THEN I(0) ELSE Div(height, dist)
                   cos6 == Div(Sqrt3, I(2))
                   sin6 == <<1, 2>>
                   arrowLength == MathMin(I(20), Div(dist, I(3)))
                   p1 == Pt(x2, y2)
                   p2 == Pt(Sub(x2, Mul(arrowLength,
                                        Add(Mul(cosA, cos6), Mul(sinA, sin6)))),
                            Sub(y2, Mul(arrowLength,
                                        Sub(Mul(sinA, cos6), Mul(cosA, sin6)))))
                   p3 == Pt(Sub(x2, Mul(arrowLength,
                                        Sub(Mul(cosA, cos6), Mul(sinA, sin6)))),
                            Sub(y2, Mul(arrowLength,
                                        Add(Mul(sinA, cos6), Mul(cosA, sin6)))))
               IN  <<seg(0, Pt(x1, y1), Pt(x2, y2)),
                     Stroke(idBase + 1, <<p2, p1, p3>>, strokeWidth, color)>>
          [] type = "triangle" ->
               LET side == getDistance(start, end)
                   h  == Div(Mul(side, Sqrt3), I(2))
                   mx == Div(Add(x1, x2), I(2))
                   my == Div(Add(y1, y2), I(2))
                   p3x == Sub(mx, Mul(h, Div(height, side)))
                   p3y == Add(my, Mul(h, Div(width, side)))
               IN  IF Lt(side, I(2)) THEN <<>>
                   ELSE one(<<Pt(x1, y1), Pt(x2, y2), Pt(p3x, p3y), Pt(x1, y1)>>)
          [] type = "rightTriangle" ->
               one(<<Pt(x1, y1), Pt(x1, y2), Pt(x2, y2), Pt(x1, y1)>>)
          [] type \in {"pentagon", "hexagon", "star", "rhombus", "parallelogram",
                       "trapezoid"} ->
               LET sides == CASE type = "pentagon" -> 5 [] type = "hexagon" -> 6
                              [] type = "star" -> 5 [] OTHER -> 4
                   radius == MathSqrt(Add(Mul(rx, rx), Mul(ry, ry)))
                   offset == Mul(rx, <<1, 4>>)
               IN  IF Lt(radius, I(2)) THEN <<>>
                   ELSE CASE type = "rhombus" ->
                               one(<<Pt(cx, y1), Pt(x2, cy), Pt(cx, y2), Pt(x1, cy),
                                     Pt(cx, y1)>>)
                          [] type = "parallelogram" ->
                               one(<<Pt(Add(x1, offset), y1), Pt(Add(x2, offset), y1),
                                     Pt(Sub(x2, offset), y2), Pt(Sub(x1, offset), y2),
                                     Pt(Add(x1, offset), y1)>>)
                          [] type = "trapezoid" ->
                               one(<<Pt(Add(x1, offset), y1), Pt(Sub(x2, offset), y1),
                                     Pt(x2, y2), Pt(x1, y2), Pt(Add(x1, offset), y1)>>)
                          [] OTHER ->
                               one(PolygonWalk(cx, cy, radius, sides, type = "star"))
          [] type = "cuboid" ->
               IF Lt(MathAbs(width), I(5)) \/ Lt(MathAbs(height), I(5)) THEN <<>>
               ELSE LET depthX == Mul(width, <<2, 5>>)
                        depthY == Mul(height, <<-2, 5>>)
                        r1 == <<Pt(x1, y1), Pt(x2, y1), Pt(x2, y2), Pt(x1, y2)>>
                        r2 == SeqMap(r1, LAMBDA q : Pt(Add(q.x, depthX), Add(q.y, depthY)))
                    IN  <<Stroke(idBase, Append(r1, r1[1]), strokeWidth, color),
                          Stroke(idBase + 1, Append(r2, r2[1]), strokeWidth, color),
                          seg(2, r1[1], r2[1]), seg(3, r1[2], r2[2]),
                          seg(4, r1[3], r2[3]), seg(5, r1[4], r2[4])>>
          [] type = "cone" ->
               LET radiusX == rx
                   radiusY == Mul(MathAbs(height), <<1, 5>>)
                   apex == Pt(cx, y1)
                   baseCy == Sub(y2, radiusY)
               IN  IF Lt(radiusX, I(1)) \/ Lt(radiusY, I(1)) THEN <<>>
                   ELSE <<Stroke(idBase,
                                 EllipseWalk(cx, baseCy, radiusX, radiusY,
                                             EllipseSteps(radiusX, radiusY)),
                                 strokeWidth, color),
                          seg(1, apex, Pt(Sub(cx, radiusX), baseCy)),
                          seg(2, apex, Pt(Add(cx, radiusX), baseCy))>>
          [] type = "cylinder" ->
               LET ryEllipse == MathMin(ry, Mul(rx, <<3, 10>>))
                   stepCount == EllipseSteps(rx, ryEllipse)
               IN  IF Lt(rx, I(1)) \/ Lt(MathAbs(height), I(5)) THEN <<>>
                   ELSE <<Stroke(idBase, EllipseWalk(cx, y1, rx, ryEllipse, stepCount),
                                 strokeWidth, color),
                          Stroke(idBase + 1, EllipseWalk(cx, y2, rx, ryEllipse, stepCount),
                                 strokeWidth, color),
                          seg(2, Pt(x1, Add(y1, ryEllipse)), Pt(x1, Add(y2, ryEllipse))),
                          seg(3, Pt(x2, Add(y1, ryEllipse)), Pt(x2, Add(y2, ryEllipse)))>>
          [] type = "sphere" ->
               LET stepCount == EllipseSteps(rx, ry)
               IN  IF Lt(rx, I(2)) THEN <<>>
                   ELSE <<Stroke(idBase, EllipseWalk(cx, cy, rx, ry, stepCount),
                                 strokeWidth, color),
                          Stroke(idBase + 1,
                                 EllipseWalk(cx, cy, rx, Mul(ry, <<3, 10>>), stepCount),
                                 thin, color),
                          Stroke(idBase + 2,
                                 EllipseWalk(cx, cy, Mul(rx, <<3, 10>>), ry, stepCount),
                                 thin, color)>>
          [] type = "pyramid" ->
               IF Lt(MathAbs(width), I(5)) \/ Lt(MathAbs(height), I(5)) THEN <<>>
               ELSE LET apex == Pt(cx, y1)
                        b0 == Pt(x1, y2)
                        b1 == Pt(x2, y2)
                        b3 == Pt(Add(x1, Mul(rx, <<3, 10>>)), Sub(y2, Mul(ry, <<1, 2>>)))
                    IN  <<seg(0, apex, b0), seg(1, apex, b1), seg(2, apex, b3),
                          seg(3, b0, b1), seg(4, b0, b3)>>

-----------------------------------------------------------------------------
(* components/Canvas: the pointer handlers.  An event e is the client       *)
(* position {x, y} of the contact; id is its pointerId.                     *)

UiReady == Mounted /\ ~Dirty /\ confirmation = Null

NoGesture == [id |-> 0, path |-> <<>>, clean |-> FALSE, pinch |-> Null]
Sample(e) == [e |-> e, vt |-> viewTransform]

handlePointerDown(id, e) ==
    LET ps     == PointersSet(pointers, id, e)
        point  == getPointInWorldSpace(e)
        first  == Len(ps) = 1
        drag   == first /\ tool = "hand" /\ TextsAt(point) # {}
        single == first /\ ~drag
        hs     == IF single /\ tool = "eraser" THEN eraseAtPoint(Hook, index, point)
                  ELSE Hook
    IN  /\ UiReady
        /\ ~PointersHas(pointers, id)
        /\ pointers' = ps
        /\ latestPointerPosition' = point
        /\ selectionRect' = IF first THEN Null ELSE selectionRect
        /\ draggedItem' =
              IF drag
              THEN [id |-> TextToDrag(point).id,
                    initialBounds |-> TextToDrag(point).bounds,
                    startPoint |-> point]
              ELSE draggedItem
        /\ isDrawing' = IF single /\ tool \in {"pen", "shape"} THEN TRUE ELSE isDrawing
        /\ currentStrokePoints' =
              IF single /\ tool = "pen" THEN <<point>> ELSE currentStrokePoints
        /\ selectionStartPoint' =
              IF single /\ tool = "select" THEN point ELSE selectionStartPoint
        /\ drawingShape' =
              IF single /\ tool = "shape" THEN [start |-> point, end |-> point]
              ELSE drawingShape
        /\ lastGesture' =
              IF Len(ps) = 2
              THEN [dist |-> getDistance(ps[1].p, ps[2].p),
                    mid  |-> getMidpoint(ps[1].p, ps[2].p)]
              ELSE lastGesture
        /\ HookBecomes(hs)
        /\ last' = [op |-> "pointerDown", id |-> id]
        /\ gesture' =
              IF single /\ tool = "pen"
              THEN [id |-> id, path |-> <<Sample(e)>>, clean |-> TRUE, pinch |-> Null]
              ELSE IF Len(ps) = 2
              THEN [NoGesture EXCEPT
                      !.pinch = [dist |-> getDistance(ps[1].p, ps[2].p),
                                 mid  |-> getMidpoint(ps[1].p, ps[2].p),
                                 vt   |-> viewTransform]]
              ELSE NoGesture
        /\ UNCHANGED <<instanceState, synced, isLoading, error, answer, confirmation,
                       recognition, pendingAnswer, viewTransform, tool, dpr, now, steps>>

handlePointerMove(id, e) ==
    LET point    == getPointInWorldSpace(e)
        tracked  == PointersHas(pointers, id)
        ps       == IF tracked THEN PointersSet(pointers, id, e) ELSE pointers
        active   == tracked /\ draggedItem = Null
        one      == active /\ Len(ps) = 1
        two      == active /\ Len(ps) = 2 /\ lastGesture # Null
        penMove    == one /\ isDrawing /\ tool = "pen"
        shapeMove  == one /\ ~penMove /\ isDrawing /\ tool = "shape"
        eraserMove == one /\ ~penMove /\ ~shapeMove /\ tool = "eraser"
        handMove   == one /\ ~penMove /\ ~shapeMove /\ tool = "hand"
        selectMove == one /\ ~penMove /\ ~shapeMove /\ tool = "select"
                          /\ selectionStartPoint # Null
        movement == LET was == pointers[PointersGet(pointers, id)].p
                    IN  Pt(Sub(e.x, was.x), Sub(e.y, was.y))
        hs       == IF eraserMove THEN eraseAtPoint(Hook, index, point) ELSE Hook
    IN  /\ UiReady
        /\ latestPointerPosition' = point
        /\ pointers' = ps
        /\ penMove => Len(currentStrokePoints) < MaxPoints
        /\ (handMove \/ two) => steps < MaxSteps
        /\ currentStrokePoints' =
              IF penMove THEN Append(currentStrokePoints, point) ELSE currentStrokePoints
        /\ drawingShape' =
              IF shapeMove /\ drawingShape # Null THEN [drawingShape EXCEPT !.end = point]
              ELSE drawingShape
        /\ viewTransform' =
              IF handMove THEN panTransform(viewTransform, movement)
              ELSE IF two
              THEN pinchTransform(viewTransform, lastGesture, ps[1].p, ps[2].p)
              ELSE viewTransform
        /\ steps' = IF handMove \/ two THEN steps + 1 ELSE steps
        /\ selectionRect' =
              IF selectMove
              THEN LET start == selectionStartPoint
                   IN  Bounds(MathMin(start.x, point.x), MathMin(start.y, point.y),
                              MathAbs(Sub(start.x, point.x)), MathAbs(Sub(start.y, point.y)))
              ELSE selectionRect
        /\ lastGesture' =
              IF two
              THEN [dist |-> getDistance(ps[1].p, ps[2].p),
                    mid  |-> getMidpoint(ps[1].p, ps[2].p)]
              ELSE lastGesture
        /\ HookBecomes(hs)
        /\ last' = [op |-> "pointerMove", id |-> id, pinch |-> two]
        /\ gesture' =
              IF penMove /\ gesture.clean /\ gesture.id = id
              THEN [gesture EXCEPT !.path = Append(@, Sample(e))]
              ELSE gesture
        /\ UNCHANGED <<instanceState, synced, isLoading, error, answer, confirmation,
                       recognition, pendingAnswer, tool, dpr, isDrawing, draggedItem,
                       selectionStartPoint, now>>


\* What handlePointerUp commits, in the order of its three branches; every
\* setState of the one handler run holds the same index.
DraggedText ==
    {i \in 1..Len(texts) : draggedItem # Null /\ texts[i].id = draggedItem.id}
DropBounds(e) ==
    LET text == texts[CHOOSE i \in DraggedText : \A j \in DraggedText : i <= j]
        currentPoint == getPointInWorldSpace(e)
        dx == Sub(currentPoint.x, draggedItem.startPoint.x)
        dy == Sub(currentPoint.y, draggedItem.startPoint.y)
        moved == [draggedItem.initialBounds EXCEPT !.x = Add(@, dx), !.y = Add(@, dy)]
    IN  IF state.canvasStyle.backgroundType = "copybook"
        THEN [moved EXCEPT !.y = SnapY(moved.y, text.fontSize)]
        ELSE moved

PenStroke ==
    Stroke(now, currentStrokePoints, state.toolSettings.pen.size,
           state.toolSettings.pen.color)
\* Variant for the sensitivity of C14: the outline is left open, its last
\* point dropped.
ShapeStrokesLeftOpen ==
    SeqMap(createStrokesForShape(drawingShape.start, drawingShape.end,
                                 state.toolSettings.shape.type,
                                 state.toolSettings.shape.size,
                                 state.toolSettings.shape.color),
           LAMBDA st : [st EXCEPT !.points = SubSeq(@, 1, Len(@) - 1)])
ShapeStrokes ==
    createStrokesForShape(drawingShape.start, drawingShape.end,
                          state.toolSettings.shape.type, state.toolSettings.shape.size,
                          state.toolSettings.shape.color)

\* Variant for the sensitivity of C29: the strokes of a shape are committed
\* in two steps, the first stroke and then the others.
UpCommitsStrokeByStroke(e) ==
    LET hs1 == IF DraggedText # {}
               THEN handleTextUpdate(Hook, index, draggedItem.id, DropBounds(e))
               ELSE Hook
        hs2 == IF tool = "pen" /\ Len(currentStrokePoints) > 1
               THEN handleSetStrokes(hs1, index, <<PenStroke>>)
               ELSE hs1
        hs3 == IF tool = "shape" /\ drawingShape # Null /\ ShapeStrokes # <<>>
               THEN handleSetStrokes(handleSetStrokes(hs2, index, <<Head(ShapeStrokes)>>),
                                     index + 1, Tail(ShapeStrokes))
               ELSE hs2
    IN  hs3

UpCommits(e) ==
    LET hs1 == IF DraggedText # {}
               THEN handleTextUpdate(Hook, index, draggedItem.id, DropBounds(e))
               ELSE Hook
        hs2 == IF tool = "pen" /\ Len(currentStrokePoints) > 1
               THEN handleSetStrokes(hs1, index, <<PenStroke>>)
               ELSE hs1
        hs3 == IF tool = "shape" /\ drawingShape # Null /\ ShapeStrokes # <<>>
               THEN handleSetStrokes(hs2, index, ShapeStrokes)
               ELSE hs2
    IN  hs3

\* The state changes of handlePointerUp other than the contact table.
PointerUpBody(e) ==
    /\ lastGesture' = Null
    /\ isDrawing' = FALSE
    /\ draggedItem' = Null
    /\ currentStrokePoints' = <<>>
    /\ drawingShape' = IF tool = "shape" THEN Null ELSE drawingShape
    /\ selectionStartPoint' = IF tool = "select" THEN Null ELSE selectionStartPoint
    /\ selectionRect' =
          IF /\ tool = "select"
             /\ selectionRect # Null
             /\ (Lt(selectionRect.width, I(10)) \/ Lt(selectionRect.height, I(10)))
          THEN Null
          ELSE selectionRect
    /\ HookBecomes(UpCommits(e))

\* onPointerUp and onPointerCancel.
handlePointerUp(id, e) ==
    /\ UiReady
    /\ pointers' = PointersDelete(pointers, id)
    /\ PointerUpBody(e)
    /\ last' = [op |-> "pointerUp", id |-> id,
                shape |-> IF tool = "shape" THEN drawingShape ELSE Null]
    /\ gesture' = NoGesture
    /\ UNCHANGED <<instanceState, synced, isLoading, error, answer, confirmation,
                   recognition, pendingAnswer, viewTransform, tool, dpr,
                   latestPointerPosition, now, steps>>

onPointerLeave(id, e) ==
    /\ UiReady
    /\ pointers' = PointersDelete(pointers, id)
    /\ IF isDrawing THEN PointerUpBody(e)
       ELSE /\ requests' = <<>>
            /\ UNCHANGED <<lastGesture, isDrawing, draggedItem, currentStrokePoints,
                           drawingShape, selectionStartPoint, selectionRect,
                           historyVars, crashed>>
    /\ last' = [op |-> "pointerLeave", id |-> id]
    /\ gesture' = NoGesture
    /\ UNCHANGED <<instanceState, synced, isLoading, error, answer, confirmation,
                   recognition, pendingAnswer, viewTransform, tool, dpr,
                   latestPointerPosition, now, steps>>

\* The "Ans" button, rendered while a selection rectangle exists.  The click
\* hands the picture of the selection to App.handleGetAnswer, which returns
\* at once while a request is pending, and then drops the rectangle.
handleAnswerButtonClick ==
    /\ UiReady
    /\ selectionRect # Null
    /\ isLoading' = TRUE
    /\ error' = IF isLoading THEN error ELSE Null
    /\ pendingAnswer' =
          IF isLoading THEN pendingAnswer
          ELSE [answerLength |-> instanceState.answerLength, bounds |-> selectionRect]
    /\ selectionRect' = Null
    /\ last' = Op("answer")
    /\ gesture' = NoGesture
    /\ requests' = <<>>
    /\ UNCHANGED <<historyVars, instanceState, synced, answer, confirmation,
                   recognition, crashed, viewTransform, tool, dpr, pointers,
                   lastGesture, isDrawing, currentStrokePoints, latestPointerPosition,
                   draggedItem, selectionStartPoint, drawingShape, now, steps>>

\* AnswerSucceed, if the answer were written on the page where the selection
\* was.
AnswerSucceedWritesOnPage(result) ==
    /\ Mounted
    /\ pendingAnswer # Null
    /\ HookBecomes(updateCurrentPage(Hook, index, LAMBDA page :
          [page EXCEPT !.texts = Append(@,
              RecognizedText(now, result, pendingAnswer.bounds, "Caveat", I(48)))]))
    /\ answer' = [title |-> "AI Answer", content |-> result]
    /\ isLoading' = FALSE
    /\ pendingAnswer' = Null
    /\ last' = Op("answerSucceed")
    /\ gesture' = NoGesture
    /\ UNCHANGED <<instanceState, synced, error, confirmation, recognition,
                   viewTransform, tool, dpr, canvasVars, now, steps>>

\* App.handleGetAnswer after its await: the service answered, and the
\* finally block.
AnswerSucceed(result) ==
    /\ Mounted
    /\ pendingAnswer # Null
    /\ answer' = [title |-> "AI Answer", content |-> result]
    /\ isLoading' = FALSE
    /\ pendingAnswer' = Null
    /\ last' = Op("answerSucceed")
    /\ gesture' = NoGesture
    /\ requests' = <<>>
    /\ UNCHANGED <<historyVars, instanceState, synced, error, confirmation,
                   recognition, crashed, viewTransform, tool, dpr, canvasVars, now,
                   steps>>

\* The service failed: the catch block and the finally block.
AnswerFail ==
    /\ Mounted
    /\ pendingAnswer # Null
    /\ last' = Op("answerFail")
    /\ error' = ErrorMessage("Failed to get an answer. Please try again.")
    /\ isLoading' = FALSE
    /\ pendingAnswer' = Null
    /\ gesture' = NoGesture
    /\ requests' = <<>>
    /\ UNCHANGED <<historyVars, instanceState, synced, answer, confirmation,
                   recognition, crashed, viewTransform, tool, dpr, canvasVars, now,
                   steps>>

\* Where redrawCanvas paints the dragged text.
draggedTextPosition ==
    IF draggedItem = Null THEN Null
    ELSE LET currentPoint == latestPointerPosition
             dx == Sub(currentPoint.x, draggedItem.startPoint.x)
             dy == Sub(currentPoint.y, draggedItem.startPoint.y)
         IN  Pt(Add(draggedItem.initialBounds.x, dx), Add(draggedItem.initialBounds.y, dy))

handleWheel(e, deltaY) ==
    /\ UiReady
    /\ steps < MaxSteps
    /\ viewTransform' = wheelTransform(viewTransform, e, deltaY)
    /\ steps' = steps + 1
    /\ last' = [op |-> "wheel",
                atLimit |-> wheelTransform(viewTransform, e, deltaY).scale
                            = viewTransform.scale]
    /\ gesture' = NoGesture
    /\ UNCHANGED <<historyVars, appVars, tool, dpr, canvasVars, now>>
    /\ requests' = <<>>

-----------------------------------------------------------------------------
(* App and Controls.                                                       *)

setTool(t) ==
    /\ UiReady
    /\ tool # t
    /\ tool' = t
    /\ last' = Op("setTool")
    /\ gesture' = NoGesture
    /\ UNCHANGED <<historyVars, appVars, viewTransform, dpr, canvasVars, now, steps>>
    /\ requests' = <<>>

\* Time passes.
Tick ==
    /\ now < MaxClock
    /\ now' = now + 1
    /\ UNCHANGED <<historyVars, appVars, viewTransform, tool, dpr, canvasVars, last,
                   gesture, steps>>
    /\ requests' = <<>>

-----------------------------------------------------------------------------
(* One render's passive effects of EditorView, in source order.  The first *)
(* hands `state` to App when it changed; the second compares the tool      *)
(* settings of the instanceState prop of this render (not yet updated by   *)
(* the first) with those of `state`, and commits on a difference.          *)
SyncEffects ==
    LET hs == IF ToolSettingsDiffer
              THEN setState(Hook, index,
                            LAMBDA st : [st EXCEPT !.toolSettings = instanceState.toolSettings])
              ELSE Hook
    IN  /\ Mounted
        /\ Dirty
        /\ instanceState' = IF StateChanged THEN state ELSE instanceState
        /\ synced' = state
        /\ HookBecomes(hs)
        /\ last' = last
        /\ gesture' = NoGesture
        /\ UNCHANGED <<isLoading, error, answer, confirmation, recognition,
                       pendingAnswer, viewTransform, tool, dpr, canvasVars, now, steps>>

\* An operation of the editor that only touches the history; l is its record.
HistoryStep(hs, l) ==
    /\ HookBecomes(hs)
    /\ last' = l
    /\ gesture' = NoGesture
    /\ UNCHANGED <<instanceState, synced, isLoading, error, answer, confirmation,
                   recognition, pendingAnswer, viewTransform, tool, dpr, canvasVars,
                   now, steps>>

\* Variant of Undo for the sensitivity of C22: the view is part of what is
\* undone, and goes back to where it started.
UndoRestoresView ==
    /\ UiReady
    /\ HookBecomes(undo(Hook))
    /\ viewTransform' = IF canUndo THEN ViewTransform(I(1), I(0), I(0)) ELSE viewTransform
    /\ last' = [op |-> "undo", moved |-> canUndo, h |-> history, i |-> index]
    /\ gesture' = NoGesture
    /\ UNCHANGED <<instanceState, synced, isLoading, error, answer, confirmation,
                   recognition, pendingAnswer, tool, dpr, canvasVars, now, steps>>

\* The records of undo and redo keep the history as it was before the undo.
Undo ==
    /\ UiReady
    /\ HistoryStep(undo(Hook), [op |-> "undo", moved |-> canUndo, h |-> history, i |-> index])
Redo ==
    /\ UiReady
    /\ HistoryStep(redo(Hook),
                   IF last.op = "undo" /\ last.moved
                   THEN [op |-> "redo", afterUndo |-> TRUE, h |-> last.h, i |-> last.i]
                   ELSE [op |-> "redo", afterUndo |-> FALSE])

handleAddPage ==
    /\ UiReady
    /\ Len(state.pages) < MaxPages
    /\ HistoryStep(setStateValue(Hook, index,
                      [state EXCEPT !.pages = Append(@, Page(now, <<>>, <<>>)),
                                    !.currentPageIndex = Len(state.pages)]),
                   Op("addPage"))

\* Variant for the sensitivity of C37: the new index is not compared with
\* the number of pages.
handleChangePageUnchecked(newIndex) ==
    /\ UiReady
    /\ HistoryStep(setStateValue(Hook, index,
                                 [state EXCEPT !.currentPageIndex = newIndex]),
                   [op |-> "changePage", newIndex |-> newIndex])

handleChangePage(newIndex) ==
    /\ UiReady
    /\ HistoryStep(IF newIndex >= 0 /\ newIndex < Len(state.pages)
                   THEN setStateValue(Hook, index,
                                      [state EXCEPT !.currentPageIndex = newIndex])
                   ELSE Hook,
                   [op |-> "changePage", newIndex |-> newIndex])

\* Controls: the size slider of the current tool.  The record it spreads is
\* the one of App's instance state.
handleSizeChange(size) ==
    /\ UiReady
    /\ tool \in {"pen", "eraser", "shape"}
    /\ HistoryStep(setState(Hook, index, LAMBDA st :
                      [st EXCEPT !.toolSettings[tool] =
                          [instanceState.toolSettings[tool] EXCEPT !.size = size]]),
                   Op("sizeChange"))

handleSetCanvasStyle(backgroundType) ==
    /\ UiReady
    /\ HistoryStep(setState(Hook, index, LAMBDA st :
                      [st EXCEPT !.canvasStyle.backgroundType = backgroundType]),
                   Op("setCanvasStyle"))

setAnswerLength(length) ==
    /\ UiReady
    /\ HistoryStep(setState(Hook, index, LAMBDA st : [st EXCEPT !.answerLength = length]),
                   Op("setAnswerLength"))

\* App: the shape palette writes the instance state directly.
handleSetShapeType(shapeType) ==
    /\ UiReady
    /\ instanceState' = [instanceState EXCEPT !.toolSettings.shape.type = shapeType]
    /\ last' = Op("setShapeType")
    /\ gesture' = NoGesture
    /\ UNCHANGED <<historyVars, synced, isLoading, error, answer, confirmation,
                   recognition, pendingAnswer, crashed, viewTransform, tool, dpr,
                   canvasVars, now, steps>>
    /\ requests' = <<>>

-----------------------------------------------------------------------------
(* Recognition: the Recognize button, the canvas effect that renders the   *)
(* strokes, and handleRecognize with its awaited service call.             *)

\* acc = [minX, minY, maxX, maxY] over the points from point j of stroke i
\* on, each widened by half its stroke's width.
RECURSIVE StrokesBoundsFrom(_, _, _, _)
StrokesBoundsFrom(ss, i, j, acc) ==
    IF i > Len(ss) THEN acc
    ELSE IF j > Len(ss[i].points) THEN StrokesBoundsFrom(ss, i + 1, 1, acc)
    ELSE LET r == Div(ss[i].strokeWidth, I(2))
             p == ss[i].points[j]
         IN  StrokesBoundsFrom(ss, i, j + 1,
                [minX |-> MathMin(acc.minX, Sub(p.x, r)),
                 minY |-> MathMin(acc.minY, Sub(p.y, r)),
                 maxX |-> MathMax(acc.maxX, Add(p.x, r)),
                 maxY |-> MathMax(acc.maxY, Add(p.y, r))])
StrokesBounds(ss, i, acc) == StrokesBoundsFrom(ss, i, 1, acc)

NoBounds == [minX |-> PosInf, minY |-> PosInf, maxX |-> Neg(PosInf), maxY |-> Neg(PosInf)]
RecognitionBounds ==
    LET b == StrokesBounds(strokes, 1, NoBounds)
    IN  Bounds(b.minX, b.minY, Sub(b.maxX, b.minX), Sub(b.maxY, b.minY))
CanRecognize ==
    /\ Len(strokes) > 0
    /\ StrokesBounds(strokes, 1, NoBounds).minX # PosInf
    /\ ~Le(RecognitionBounds.width, I(0))
    /\ ~Le(RecognitionBounds.height, I(0))

\* The Recognize button up to the await of handleRecognize: the call keeps
\* the index, the style and the bounds of the render that started it.
RecognizeStart ==
    /\ UiReady
    /\ ~isLoading
    /\ CanRecognize
    /\ isLoading' = TRUE
    /\ error' = Null
    /\ recognition' = [k |-> index, canvasStyle |-> state.canvasStyle,
                       bounds |-> RecognitionBounds, startedAt |-> now]
    /\ last' = Op("recognizeStart")
    /\ gesture' = NoGesture
    /\ UNCHANGED <<historyVars, instanceState, synced, answer, confirmation,
                   pendingAnswer, crashed, viewTransform, tool, dpr, canvasVars, now,
                   steps>>
    /\ requests' = <<>>

\* The service answered: the rest of the try block and the finally block.
\* The call took time, so the clock has moved since it started.
RecognizeSucceed(result) ==
    /\ Mounted
    /\ ~Dirty
    /\ recognition # Null
    /\ now > recognition.startedAt
    /\ HookBecomes(updateCurrentPage(Hook, recognition.k,
          LAMBDA page : RecognizedPage(page, recognition, result, now)))
    /\ isLoading' = FALSE
    /\ recognition' = Null
    /\ last' = [op |-> "recognizeSucceed", k |-> recognition.k,
                stale |-> recognition.k # index, result |-> result]
    /\ gesture' = NoGesture
    /\ UNCHANGED <<instanceState, synced, error, answer, confirmation, pendingAnswer,
                   viewTransform, tool, dpr, canvasVars, now, steps>>

\* Variant for the sensitivity of C18: the failure clears the strokes of the
\* page, as the success does.
RecognizeFailClearsStrokes ==
    /\ Mounted
    /\ ~Dirty
    /\ recognition # Null
    /\ HookBecomes(updateCurrentPage(Hook, recognition.k,
          LAMBDA page : [page EXCEPT !.strokes = <<>>]))
    /\ last' = Op("recognizeFail")
    /\ error' = ErrorMessage("Failed to recognize handwriting. Please try again.")
    /\ isLoading' = FALSE
    /\ recognition' = Null
    /\ gesture' = NoGesture
    /\ UNCHANGED <<instanceState, synced, answer, confirmation, pendingAnswer,
                   viewTransform, tool, dpr, canvasVars, now, steps>>

\* The service failed: the catch block and the finally block.
RecognizeFail ==
    /\ Mounted
    /\ ~Dirty
    /\ recognition # Null
    /\ last' = Op("recognizeFail")
    /\ error' = ErrorMessage("Failed to recognize handwriting. Please try again.")
    /\ isLoading' = FALSE
    /\ recognition' = Null
    /\ gesture' = NoGesture
    /\ UNCHANGED <<historyVars, instanceState, synced, answer, confirmation,
                   pendingAnswer, crashed, viewTransform, tool, dpr, canvasVars, now,
                   steps>>
    /\ requests' = <<>>

-----------------------------------------------------------------------------
(* The confirmation dialogs of Clear and Reset.  The dialog keeps the       *)
(* onConfirm closure, and with it the index, of the render that opened it.  *)

requestClear ==
    /\ UiReady
    /\ ~isLoading
    /\ ~(Len(currentPage.strokes) = 0 /\ Len(currentPage.texts) = 0)
    /\ confirmation' = [kind |-> "clear", k |-> index]
    /\ last' = Op("requestClear")
    /\ gesture' = NoGesture
    /\ UNCHANGED <<historyVars, instanceState, synced, isLoading, error, answer,
                   recognition, pendingAnswer, crashed, viewTransform, tool, dpr,
                   canvasVars, now, steps>>
    /\ requests' = <<>>

requestReset ==
    /\ UiReady
    /\ confirmation' = [kind |-> "reset", k |-> index]
    /\ last' = Op("requestReset")
    /\ gesture' = NoGesture
    /\ UNCHANGED <<historyVars, instanceState, synced, isLoading, error, answer,
                   recognition, pendingAnswer, crashed, viewTransform, tool, dpr,
                   canvasVars, now, steps>>
    /\ requests' = <<>>

\* handleResetSettings.  On an undefined present the updater itself does not
\* throw, but the snapshot it returns has no pages and the next render does.
handleResetSettings(hs, k) ==
    setState(hs, k, LAMBDA st :
        [st EXCEPT !.canvasStyle = initialCanvasStyle,
                   !.toolSettings = initialToolSettings,
                   !.isGlobalStyleEnabled = FALSE,
                   !.isSpellingCorrectionEnabled = FALSE,
                   !.answerLength = "compact"])

Confirm ==
    /\ Mounted
    /\ ~Dirty
    /\ confirmation # Null
    /\ IF confirmation.kind = "clear"
       THEN /\ HookBecomes(handleClear(Hook, confirmation.k))
            /\ error' = Null
            /\ UNCHANGED viewTransform
       ELSE /\ HookBecomes(handleResetSettings(Hook, confirmation.k))
            /\ viewTransform' = ViewTransform(I(1), I(0), I(0))
            /\ UNCHANGED error
    /\ confirmation' = Null
    /\ last' = [op |-> "confirm", kind |-> confirmation.kind]
    /\ gesture' = NoGesture
    /\ UNCHANGED <<instanceState, synced, isLoading, answer, recognition, pendingAnswer,
                   tool, dpr, canvasVars, now, steps>>

Cancel ==
    /\ Mounted
    /\ confirmation # Null
    /\ confirmation' = Null
    /\ last' = Op("cancel")
    /\ gesture' = NoGesture
    /\ UNCHANGED <<historyVars, instanceState, synced, isLoading, error, answer,
                   recognition, pendingAnswer, crashed, viewTransform, tool, dpr,
                   canvasVars, now, steps>>
    /\ requests' = <<>>

-----------------------------------------------------------------------------
(* The state after the first render of a fresh installation: one subject   *)
(* with the initial document, the pen selected, nothing on the screen.     *)

InitWith(doc, t, d, vt) ==
    /\ history = <<doc>>
    /\ index = 0
    /\ instanceState = doc
    /\ synced = doc
    /\ isLoading = FALSE
    /\ error = Null
    /\ answer = Null
    /\ confirmation = Null
    /\ recognition = Null
    /\ pendingAnswer = Null
    /\ crashed = FALSE
    /\ viewTransform = vt
    /\ tool = t
    /\ dpr = d
    /\ pointers = <<>>
    /\ lastGesture = Null
    /\ isDrawing = FALSE
    /\ currentStrokePoints = <<>>
    /\ latestPointerPosition = IPt(0, 0)
    /\ draggedItem = Null
    /\ selectionRect = Null
    /\ selectionStartPoint = Null
    /\ drawingShape = Null
    /\ last = Op("init")
    /\ gesture = NoGesture
    /\ requests = <<>>
    /\ steps = 0

-----------------------------------------------------------------------------
(* The editor and its history: one contact that draws with the pen, the    *)
(* buttons of the editor, the settings and recognition.  A step that       *)
(* commits is taken while the history has room for its snapshots.          *)

WithinHist == Len(history') <= MaxHist
WithinLog  == Len(history') <= MaxLog

EditorEvents == {IPt(0, 0)}

InitEditor ==
    /\ now = 0
    /\ InitWith(createInitialState, "pen", I(1), ViewTransform(I(1), I(0), I(0)))

\* A pen gesture of this specification has one move, and the clock is seen
\* to advance only while the recognition service is at work.
NextEditor ==
    \/ \E e \in EditorEvents : handlePointerDown(1, e)
    \/ \E e \in EditorEvents :
          /\ PointersHas(pointers, 1)
          /\ Len(currentStrokePoints) <= 1
          /\ handlePointerMove(1, e)
    \/ \E e \in EditorEvents :
          PointersHas(pointers, 1) /\ handlePointerUp(1, e) /\ WithinHist
    \/ Undo
    \/ Redo
    \/ handleAddPage /\ WithinHist
    \/ \E newIndex \in -1..MaxPages : handleChangePage(newIndex) /\ WithinHist
    \/ pointers = <<>> /\ handleSizeChange(I(4)) /\ WithinHist
    \/ pointers = <<>> /\ handleSetCanvasStyle("grid") /\ WithinHist
    \/ pointers = <<>> /\ handleSetShapeType("line")
    \/ RecognizeStart
    \/ RecognizeSucceed("a") /\ WithinHist
    \/ SyncEffects /\ WithinHist
    \/ recognition # Null /\ now = recognition.startedAt /\ Tick

SpecEditor == InitEditor /\ [][NextEditor]_vars

-----------------------------------------------------------------------------
(* The viewport: two contacts with the hand tool, the wheel, and the reset *)
(* of the settings.  The contacts lie on one line, at distances that are   *)
(* multiples of 50, and may coincide; the wheel turns and the dialog opens *)
(* while no contact is down.                                               *)

ViewEvents(id) ==
    IF id = 1 THEN {IPt(120, 160), IPt(90, 120)}
              ELSE {IPt(120, 160), IPt(180, 240), IPt(210, 280)}
WheelEvents == {IPt(120, 160)}
WheelDeltas == {I(-800), I(100)}
InitViewport ==
    /\ now = 0
    /\ InitWith(createInitialState, "hand", I(2), ViewTransform(I(1), I(0), I(0)))

NextViewport ==
    \/ \E id \in {1, 2} : \E e \in ViewEvents(id) : handlePointerDown(id, e)
    \/ \E id \in {1, 2} : \E e \in ViewEvents(id) :
          PointersHas(pointers, id) /\ handlePointerMove(id, e)
    \/ \E id \in {1, 2} :
          /\ PointersHas(pointers, id)
          /\ handlePointerUp(id, pointers[PointersGet(pointers, id)].p)
    \/ \E e \in WheelEvents : \E deltaY \in WheelDeltas :
          pointers = <<>> /\ handleWheel(e, deltaY)
    \/ pointers = <<>> /\ requestReset
    \/ Confirm
    \/ Cancel

SpecViewport == InitViewport /\ [][NextViewport]_vars

-----------------------------------------------------------------------------
(* The canvas: one contact that draws with the pen and erases, at device    *)
(* pixel ratio 2, after one turn of the wheel at client point (3, 4) has    *)
(* doubled the scale.  World points are then client points moved by (3, 4); *)
(* the events lie on one line, 5 world units per step of t:                 *)
(*   pen     down at t = 1 or t = 7, the ends of a segment 30 long, and     *)
(*           moves to t = 7;                                                *)
(*   eraser  t = 1, t = 3.5 (exactly 12.5 from t = 1) and t = 4 (on the     *)
(*           segment, 15 from both ends).                                   *)

CanvasDowns(t) ==
    IF t = "pen" THEN {IPt(0, 0), IPt(18, 24)}
    ELSE {IPt(0, 0), Pt(<<15, 2>>, I(10)), IPt(9, 12)}
CanvasMoves(t) ==
    IF t = "pen" THEN {IPt(18, 24)} ELSE CanvasDowns(t)
CanvasTools == {"pen", "eraser"}

InitCanvas ==
    /\ now = 0
    /\ InitWith(createInitialState, "pen", I(2), ViewTransform(I(2), I(-6), I(-8)))

NextCanvas ==
    \/ \E e \in CanvasDowns(tool) : handlePointerDown(1, e) /\ WithinLog
    \/ \E e \in CanvasMoves(tool) :
          PointersHas(pointers, 1) /\ handlePointerMove(1, e) /\ WithinLog
    \/ /\ PointersHas(pointers, 1)
       /\ handlePointerUp(1, pointers[PointersGet(pointers, 1)].p)
       /\ WithinLog
    \/ \E t \in CanvasTools : pointers = <<>> /\ setTool(t)
    \/ SyncEffects
    \/ pointers = <<>> /\ Tick

SpecCanvas == InitCanvas /\ [][NextCanvas]_vars

-----------------------------------------------------------------------------
(* The shape tool: one contact that drags a shape of the kind and colour   *)
(* the saved settings hold, at device pixel ratio 1 and scale 1, so that   *)
(* world points are client points.  Between the gestures the clock moves,  *)
(* and a release may be followed by an undo and the undo by a redo.        *)

ShapeKinds  == {"rectangle", "square", "line", "rightTriangle", "cuboid", "pyramid"}
ShapeColors == {"#000000", "#333333"}
ShapeEvents == {IPt(0, 0), IPt(100, 50)}

ShapeDoc(type, color) ==
    [createInitialState EXCEPT !.toolSettings.shape.type = type,
                               !.toolSettings.shape.color = color]

InitShape ==
    /\ now = 0
    /\ \E type \in ShapeKinds : \E color \in ShapeColors :
          InitWith(ShapeDoc(type, color), "shape", I(1), ViewTransform(I(1), I(0), I(0)))

NextShape ==
    \/ \E e \in ShapeEvents : handlePointerDown(1, e)
    \/ \E e \in ShapeEvents : PointersHas(pointers, 1) /\ handlePointerMove(1, e)
    \/ /\ PointersHas(pointers, 1)
       /\ handlePointerUp(1, pointers[PointersGet(pointers, 1)].p)
       /\ WithinHist
    \/ SyncEffects
    \/ pointers = <<>> /\ Tick
    \/ last.op = "pointerUp" /\ Undo
    \/ last.op = "undo" /\ Redo

SpecShape == InitShape /\ [][NextShape]_vars

-----------------------------------------------------------------------------
(* Gestures: two contacts and every tool, at device pixel ratio 1 and      *)
(* scale 1 to begin with, on a page that holds one text of 20 by 20 at the *)
(* origin.  The first contact goes down on the text, at (5, 5), or off it, *)
(* at (35, 45), and moves to (8, 9), on the text and 5 away, or to         *)
(* (35, 45), 50 and 45 away; the second goes down at (35, 45) and moves to *)
(* (5, 5).  A contact ends by lifting (or being cancelled) and by leaving  *)
(* the canvas.  The session keeps the tool it begins with, any of the      *)
(* five.  A session is explored as far as its first gesture that commits   *)
(* or moves the viewport, and the viewport is moved once; the "Ans"        *)
(* button is pressed between gestures.                                     *)

GestureTools  == {"pen", "eraser", "hand", "select", "shape"}
GestureDowns(id) == IF id = 1 THEN {IPt(5, 5), IPt(35, 45)} ELSE {IPt(35, 45)}
GestureMoves(id) == IF id = 1 THEN {IPt(8, 9), IPt(35, 45)} ELSE {IPt(5, 5)}
GestureText   == RecognizedText(7, "a", Bounds(I(0), I(0), I(20), I(20)), "Caveat", I(48))
GestureDoc    == [createInitialState EXCEPT !.pages[1].texts = <<GestureText>>]

\* Nothing has been committed and the viewport has not moved.
Untouched == Len(history) = 1 /\ viewTransform = ViewTransform(I(1), I(0), I(0))

InitGesture ==
    /\ now = 0
    /\ \E t \in GestureTools :
          InitWith(GestureDoc, t, I(1), ViewTransform(I(1), I(0), I(0)))

NextGesture ==
    \/ \E id \in {1, 2} : \E e \in GestureDowns(id) :
          /\ pointers = <<>> => Untouched
          /\ handlePointerDown(id, e)
          /\ WithinHist
    \/ \E id \in {1, 2} : \E e \in GestureMoves(id) :
          /\ PointersHas(pointers, id)
          /\ handlePointerMove(id, e)
          /\ viewTransform' # viewTransform => Untouched
          /\ WithinHist
    \/ \E id \in {1, 2} :
          /\ PointersHas(pointers, id)
          /\ handlePointerUp(id, pointers[PointersGet(pointers, id)].p)
          /\ WithinHist
    \/ \E id \in {1, 2} :
          /\ PointersHas(pointers, id)
          /\ onPointerLeave(id, pointers[PointersGet(pointers, id)].p)
          /\ WithinHist
    \/ pointers = <<>> /\ handleAnswerButtonClick
    \/ SyncEffects

SpecGesture == InitGesture /\ [][NextGesture]_vars

-----------------------------------------------------------------------------
(* The toolbar during a gesture: one contact, at (5, 5) or 50 away at       *)
(* (35, 45), on the empty page at device pixel ratio 1 and scale 1, after  *)
(* the select tool has been chosen; the buttons of the hand and the select *)
(* tool stay live while the contact is down.                               *)

ToolbarEvents == {IPt(5, 5), IPt(35, 45)}
ToolbarTools  == {"hand", "select"}

InitToolbar ==
    /\ now = 0
    /\ InitWith(createInitialState, "select", I(1), ViewTransform(I(1), I(0), I(0)))

NextToolbar ==
    \/ \E e \in ToolbarEvents : handlePointerDown(1, e)
    \/ \E e \in ToolbarEvents : PointersHas(pointers, 1) /\ handlePointerMove(1, e)
    \/ /\ PointersHas(pointers, 1)
       /\ handlePointerUp(1, pointers[PointersGet(pointers, 1)].p)
    \/ \E t \in ToolbarTools : setTool(t)

SpecToolbar == InitToolbar /\ [][NextToolbar]_vars

-----------------------------------------------------------------------------
(* Recognition: one contact that draws with the pen at (0, 0) or, 100 to   *)
(* the right, at (100, 0), and the Recognize button, whose call to the     *)
(* service succeeds or fails after the clock has moved; the editor is used *)
(* while the call is pending.                                              *)

RecognitionEvents == {IPt(0, 0), IPt(100, 0)}

InitRecognition ==
    /\ now = 0
    /\ InitWith(createInitialState, "pen", I(1), ViewTransform(I(1), I(0), I(0)))

NextRecognition ==
    \/ \E e \in RecognitionEvents : handlePointerDown(1, e)
    \/ /\ PointersHas(pointers, 1)
       /\ Len(currentStrokePoints) <= 1
       /\ handlePointerMove(1, pointers[PointersGet(pointers, 1)].p)
    \/ /\ PointersHas(pointers, 1)
       /\ handlePointerUp(1, pointers[PointersGet(pointers, 1)].p)
       /\ WithinHist
    \/ pointers = <<>> /\ RecognizeStart
    \/ RecognizeSucceed("a") /\ WithinHist
    \/ RecognizeFail
    \/ SyncEffects /\ WithinHist
    \/ recognition # Null /\ now = recognition.startedAt /\ Tick

SpecRecognition == InitRecognition /\ [][NextRecognition]_vars

-----------------------------------------------------------------------------
(* The answer button: one contact at (5, 5) or 50 away at (35, 45), on a    *)
(* page that holds one recognised text, at device pixel ratio 1 and scale   *)
(* 1.  The select tool draws the rectangle the button belongs to, the pen   *)
(* commits strokes, and the call to the service succeeds or fails while    *)
(* the editor stays in use.                                                  *)

AnswerEvents == {IPt(5, 5), IPt(35, 45)}
AnswerTools  == {"select", "pen"}

InitAnswer ==
    /\ now = 0
    /\ InitWith(GestureDoc, "select", I(1), ViewTransform(I(1), I(0), I(0)))

NextAnswer ==
    \/ \E e \in AnswerEvents : handlePointerDown(1, e)
    \/ \E e \in AnswerEvents :
          /\ PointersHas(pointers, 1)
          /\ Len(currentStrokePoints) <= 1
          /\ handlePointerMove(1, e)
    \/ /\ PointersHas(pointers, 1)
       /\ handlePointerUp(1, pointers[PointersGet(pointers, 1)].p)
       /\ WithinHist
    \/ \E t \in AnswerTools : pointers = <<>> /\ setTool(t)
    \/ handleAnswerButtonClick
    \/ AnswerSucceed("42")
    \/ AnswerFail
    \/ SyncEffects /\ WithinHist

SpecAnswer == InitAnswer /\ [][NextAnswer]_vars

-----------------------------------------------------------------------------
(* The hand tool at device pixel ratio 2, after one turn of the wheel at    *)
(* client point (3, 4) has doubled the scale: world points are client       *)
(* points moved by (3, 4).  The page holds two recognised texts that touch  *)
(* in the world point (13, 14): the older one covers (0, 0)..(13, 14), the  *)
(* newer one (13, 14)..(33, 34).  The first contact lands at client point   *)
(* (10, 10), on the corner both texts share, or 50 away at (40, 50),        *)
(* outside both; a second contact lands another 50 away at (70, 90).  Moves *)
(* also arrive for the second contact while it is not down, the history is  *)
(* walked with undo and redo, and the view changes once.                    *)

HandEvents(id) ==
    IF id = 1 THEN {IPt(10, 10), IPt(40, 50)} ELSE {IPt(70, 90)}
HandOlderText == RecognizedText(7, "a", Bounds(I(0), I(0), I(13), I(14)), "Caveat", I(48))
HandNewerText == RecognizedText(8, "b", Bounds(I(13), I(14), I(20), I(20)), "Caveat", I(48))
HandDoc == [createInitialState EXCEPT !.pages[1].texts = <<HandOlderText, HandNewerText>>]

InitHand ==
    /\ now = 0
    /\ InitWith(HandDoc, "hand", I(2), ViewTransform(I(2), I(-6), I(-8)))

NextHand ==
    \/ \E id \in {1, 2} : \E e \in HandEvents(id) : handlePointerDown(id, e)
    \/ \E id \in {1, 2} : \E e \in HandEvents(id) :
          PointersHas(pointers, id) /\ handlePointerMove(id, e) /\ steps' <= 1
    \/ \E e \in HandEvents(2) : ~PointersHas(pointers, 2) /\ handlePointerMove(2, e)
    \/ \E id \in {1, 2} :
          /\ PointersHas(pointers, id)
          /\ handlePointerUp(id, pointers[PointersGet(pointers, id)].p)
          /\ WithinHist
    \/ \E e \in WheelEvents : \E deltaY \in WheelDeltas :
          pointers = <<>> /\ handleWheel(e, deltaY) /\ steps' <= 1
    \/ pointers = <<>> /\ Undo
    \/ pointers = <<>> /\ Redo
    \/ SyncEffects /\ WithinHist

SpecHand == InitHand /\ [][NextHand]_vars

-----------------------------------------------------------------------------
(* Clear Canvas: the pen draws strokes of two points between (5, 5) and     *)
(* (35, 45) on a page that holds one recognised text, the Clear button      *)
(* opens its dialog while no contact is down, the dialog is confirmed or    *)
(* cancelled, and the history is walked with undo and redo.                 *)

InitClear ==
    /\ now = 0
    /\ InitWith(GestureDoc, "pen", I(1), ViewTransform(I(1), I(0), I(0)))

NextClear ==
    \/ \E e \in AnswerEvents : handlePointerDown(1, e)
    \/ \E e \in AnswerEvents :
          /\ PointersHas(pointers, 1)
          /\ Len(currentStrokePoints) <= 1
          /\ handlePointerMove(1, e)
    \/ /\ PointersHas(pointers, 1)
       /\ handlePointerUp(1, pointers[PointersGet(pointers, 1)].p)
       /\ WithinHist
    \/ pointers = <<>> /\ requestClear
    \/ Confirm /\ WithinHist
    \/ Cancel
    \/ pointers = <<>> /\ Undo
    \/ pointers = <<>> /\ Redo
    \/ SyncEffects /\ WithinHist

SpecClear == InitClear /\ [][NextClear]_vars

-----------------------------------------------------------------------------
(* The ruled background: a page that holds one recognised text, whose      *)
(* baseline is on no rule line, with the ruled or the grid background.  A   *)
(* session uses the hand, which drags the text between (5, 5) and          *)
(* (35, 45), or the pen, which draws strokes of two points between them     *)
(* and has them recognised; the background is switched between the two     *)
(* kinds at any moment, a pending call included.                           *)

RuledBackgrounds == {"copybook", "grid"}
RuledTools == {"hand", "pen"}

InitRuled ==
    /\ now = 0
    /\ \E t \in RuledTools :
          InitWith(GestureDoc, t, I(1), ViewTransform(I(1), I(0), I(0)))

NextRuled ==
    \/ \E e \in AnswerEvents : handlePointerDown(1, e)
    \/ \E e \in AnswerEvents :
          /\ PointersHas(pointers, 1)
          /\ Len(currentStrokePoints) <= 1
          /\ steps = 0
          /\ handlePointerMove(1, e)
    \/ /\ PointersHas(pointers, 1)
       /\ handlePointerUp(1, pointers[PointersGet(pointers, 1)].p)
       /\ WithinHist
    \/ \E bg \in RuledBackgrounds :
          pointers = <<>> /\ handleSetCanvasStyle(bg) /\ WithinHist
    \/ pointers = <<>> /\ RecognizeStart
    \/ RecognizeSucceed("a") /\ WithinHist
    \/ SyncEffects /\ WithinHist
    \/ recognition # Null /\ now = recognition.startedAt /\ Tick

SpecRuled == InitRuled /\ [][NextRuled]_vars

-----------------------------------------------------------------------------
(* Shape synthesis over all the kinds: one drag per run, from the origin   *)
(* to an end in each of the four quadrants, along one axis, or short.  The *)
(* displacements are multiples of (3, 4), so that the distances taken     *)
(* have rational roots; the clock, which gives the ids, starts at 0 or 1. *)

OutlineKinds ==
    {"rectangle", "square", "circle", "oval", "line", "arrow", "triangle",
     "rightTriangle", "rhombus", "parallelogram", "trapezoid", "pentagon", "hexagon",
     "star", "cuboid", "cone", "pyramid", "cylinder", "sphere"}
OutlineEnds ==
    {IPt(60, 80), IPt(-60, 80), IPt(60, -80), IPt(-60, -80), IPt(0, 80), IPt(60, 0),
     IPt(6, 8), IPt(42, 56)}

InitOutline ==
    /\ now \in 0..1
    /\ \E type \in OutlineKinds : \E color \in ShapeColors :
          InitWith(ShapeDoc(type, color), "shape", I(1), ViewTransform(I(1), I(0), I(0)))

NextOutline ==
    \/ index = 0 /\ handlePointerDown(1, IPt(0, 0))
    \/ \E e \in OutlineEnds : PointersHas(pointers, 1) /\ handlePointerMove(1, e)
    \/ /\ PointersHas(pointers, 1)
       /\ handlePointerUp(1, pointers[PointersGet(pointers, 1)].p)
    \/ SyncEffects

SpecOutline == InitOutline /\ [][NextOutline]_vars

-----------------------------------------------------------------------------
(* The two sync effects after each kind of user action: a pen stroke, an   *)
(* undo, a redo, a shape kind picked in the palette (written to the        *)
(* instance state by App) and a size set with the slider (committed by     *)
(* Controls).  React runs the passive effects of a render before the next  *)
(* event is handled, so a flush that is due is taken: the fair             *)
(* specification asks for that.                                            *)

NextSync ==
    \/ \E e \in EditorEvents : handlePointerDown(1, e)
    \/ \E e \in EditorEvents :
          /\ PointersHas(pointers, 1)
          /\ Len(currentStrokePoints) <= 1
          /\ handlePointerMove(1, e)
    \/ \E e \in EditorEvents :
          PointersHas(pointers, 1) /\ handlePointerUp(1, e) /\ WithinLog
    \/ pointers = <<>> /\ Undo
    \/ pointers = <<>> /\ Redo
    \/ pointers = <<>> /\ handleSetShapeType("line")
    \/ \E size \in {I(4), I(6)} :
          pointers = <<>> /\ handleSizeChange(size) /\ WithinLog
    \/ SyncEffects /\ WithinLog

SpecSync == InitEditor /\ [][NextSync]_vars
SpecSyncFair == SpecSync /\ WF_vars(SyncEffects /\ WithinLog)

-----------------------------------------------------------------------------
(* The two external calls in one session: the strokes of the page are      *)
(* sent to recognition, a rectangle is selected and sent for an answer,    *)
(* and each call succeeds or fails.  The fair specification                *)
(* assumes that the service answers or fails every call, and that the      *)
(* answer is handled once the handler that runs and the effects of its     *)
(* render are done; the effects are flushed and the clock advances.        *)

\* The pending recognition returns: within Next this is a step of
\* RecognizeSucceed or of RecognizeFail, and it is possible exactly when
\* RecognizeFail is.
RecognitionReturns ==
    /\ Mounted
    /\ ~Dirty
    /\ recognition # Null
    /\ recognition' = Null
    /\ isLoading' = FALSE
AnswerReturns == AnswerSucceed("42") \/ AnswerFail

\* A page restored with a recognised text and a pen stroke on it.
CallsDoc ==
    [GestureDoc EXCEPT !.pages[1].strokes =
        <<Stroke(0, <<IPt(5, 5), IPt(35, 45)>>, I(5), "#333333")>>]

InitCalls ==
    /\ now \in 0..1
    /\ InitWith(CallsDoc, "select", I(1), ViewTransform(I(1), I(0), I(0)))

NextCalls ==
    \/ \E e \in AnswerEvents : handlePointerDown(1, e)
    \/ \E e \in AnswerEvents : PointersHas(pointers, 1) /\ handlePointerMove(1, e)
    \/ /\ PointersHas(pointers, 1)
       /\ handlePointerUp(1, pointers[PointersGet(pointers, 1)].p)
    \/ handleAnswerButtonClick
    \/ AnswerSucceed("42")
    \/ AnswerFail
    \/ pointers = <<>> /\ RecognizeStart
    \/ RecognizeSucceed("a") /\ WithinHist
    \/ RecognizeFail
    \/ SyncEffects /\ WithinHist
    \/ recognition # Null /\ now = recognition.startedAt /\ Tick

SpecCalls == InitCalls /\ [][NextCalls]_vars
SpecCallsFair ==
    /\ SpecCalls
    /\ WF_<<history, index, instanceState, synced>>(SyncEffects /\ WithinHist)
    /\ SF_<<isLoading, recognition>>(RecognitionReturns)
    /\ SF_<<isLoading, pendingAnswer>>(AnswerReturns)

-----------------------------------------------------------------------------
(* Properties of the history.                                              *)

SameJson(a, b) == JsonStringify(a) = JsonStringify(b)
OneRequest == Len(requests) = 1

\* C1: a commit whose new state is value-equal to the snapshot at the cursor
\* leaves the snapshot sequence and the cursor as they were, redo suffix
\* included; and committing once more the state a commit has just made current
\* changes nothing, so the length stays and canRedo stays false.
C1_EqualCommitIsNoOp ==
    [][ /\ (OneRequest' /\ SameJson(requests'[1].newState, state))
            => (history' = history /\ index' = index)
        /\ (OneRequest' /\ ~SameJson(requests'[1].newState, state))
            => LET again == setStateValue(Hook', index', requests'[1].newState)
               IN  /\ again.h = history'
                   /\ again.i = index'
                   /\ ~canRedo'
      ]_vars

\* A value-equal commit was asked for while a redo suffix existed.
C1_Witness == OneRequest /\ canRedo /\ last.op = "setCanvasStyle"

\* C2: a commit whose new state differs from the snapshot at the cursor
\* discards the snapshots after the cursor, appends the new state and moves
\* the cursor to it; the snapshots up to the old cursor stay, the committed
\* state is current and nothing can be redone.
C2_CommitTruncatesAndAppends ==
    [][ (OneRequest' /\ ~SameJson(requests'[1].newState, state))
            => /\ history' = Append(SubSeq(history, 1, index + 1), requests'[1].newState)
               /\ index' = Len(history') - 1
               /\ state' = requests'[1].newState
               /\ ~canRedo'
      ]_vars

\* C3: the history is never empty and the cursor is an index into it.
C3_CursorValid ==
    /\ Len(history) >= 1
    /\ index >= 0
    /\ index <= Len(history) - 1

\* The completion of a recognition call committed with the index of an
\* earlier render.
C3_Witness == last.op = "recognizeSucceed" /\ last.stale /\ OneRequest /\ ~crashed

\* C4: undo moves the cursor back by one, or not at all at cursor 0; redo
\* moves it forward by one, or not at all at the last index; neither changes
\* the snapshot sequence.
C4_UndoRedoMoveCursorOnly ==
    [][ /\ Undo => /\ history' = history
                   /\ index' = IF index > 0 THEN index - 1 ELSE index
        /\ Redo => /\ history' = history
                   /\ index' = IF index < Len(history) - 1 THEN index + 1 ELSE index
      ]_vars

\* A redo has moved the cursor from 0 to 1 of at least three snapshots.
C4_Witness == last.op = "redo" /\ index = 1 /\ canRedo

\* C5: after an undo that moved the cursor the history is the one before the
\* undo with the cursor one lower, so that the redo that follows restores the
\* state before the undo, with the same snapshots after it.
C5_UndoRedoInverse ==
    /\ (last.op = "undo" /\ last.moved)
          => (history = last.h /\ index = last.i - 1)
    /\ (last.op = "redo" /\ last.afterUndo)
          => (history = last.h /\ index = last.i)

-----------------------------------------------------------------------------
(* Properties of the viewport.                                             *)

\* a === b on JavaScript numbers: NaN equals nothing.
NumEq(a, b) == ~IsNaN(a) /\ ~IsNaN(b) /\ a = b
PtEq(p, q)  == NumEq(p.x, q.x) /\ NumEq(p.y, q.y)

\* C7: the scale of the view transform is at least MIN_ZOOM and at most
\* MAX_ZOOM in every reachable state.
C7_ScaleWithinLimits ==
    /\ Ge(viewTransform.scale, MIN_ZOOM)
    /\ Le(viewTransform.scale, MAX_ZOOM)

\* C8: a wheel zoom at the focal device point f replaces the scale by the
\* clamped scale s1 and the offset by f - (f - offset) * s1 / scale, so that f
\* maps to the same world point before and after; when s1 is the current
\* scale the offset stays.
C8_WheelZoomAnchored ==
    [][ \A e \in WheelEvents : \A deltaY \in WheelDeltas :
          handleWheel(e, deltaY) =>
            LET f   == Physical(e)
                vt  == viewTransform
                s1  == ClampZoom(Mul(vt.scale, Add(I(1), Mul(deltaY, <<-1, 200>>))))
                off == Pt(Sub(f.x, Div(Mul(Sub(f.x, vt.offsetX), s1), vt.scale)),
                          Sub(f.y, Div(Mul(Sub(f.y, vt.offsetY), s1), vt.scale)))
            IN  /\ NumEq(viewTransform'.scale, s1)
                /\ NumEq(viewTransform'.offsetX, off.x)
                /\ NumEq(viewTransform'.offsetY, off.y)
                /\ PtEq(ToWorld(viewTransform', f), ToWorld(vt, f))
                /\ NumEq(s1, vt.scale)
                      => /\ NumEq(viewTransform'.offsetX, vt.offsetX)
                         /\ NumEq(viewTransform'.offsetY, vt.offsetY)
      ]_vars

\* The anchoring of C8 in the states whose scale is a number.
WheelZoomAnchoredWhereScaleIsNumber ==
    [][ \A e \in WheelEvents : \A deltaY \in WheelDeltas :
          (handleWheel(e, deltaY) /\ ~IsNaN(viewTransform.scale)) =>
            /\ PtEq(ToWorld(viewTransform', Physical(e)),
                    ToWorld(viewTransform, Physical(e)))
            /\ NumEq(viewTransform'.scale, viewTransform.scale)
                  => viewTransform' = viewTransform
      ]_vars

\* C9: two contacts that went from distance 100 to distance 200 around an
\* unmoved midpoint have doubled the scale, up to MAX_ZOOM, and the world
\* point under the midpoint is the one it was when the second contact landed.
C9_PinchDoublesAroundMidpoint ==
    (/\ Len(pointers) = 2
     /\ gesture.pinch # Null
     /\ lastGesture # Null
     /\ gesture.pinch.dist = I(100)
     /\ lastGesture.dist = I(200)
     /\ lastGesture.mid = gesture.pinch.mid)
    => /\ NumEq(viewTransform.scale, ClampZoom(Mul(I(2), gesture.pinch.vt.scale)))
       /\ PtEq(ToWorld(viewTransform, Physical(lastGesture.mid)),
               ToWorld(gesture.pinch.vt, Physical(lastGesture.mid)))

-----------------------------------------------------------------------------
(* Properties of the canvas.                                               *)

\* The world point p is the image of the client point of the sample sm under
\* the view transform the sample was taken with.
ImageOf(p, sm) ==
    /\ NumEq(Add(Mul(p.x, sm.vt.scale), sm.vt.offsetX), Mul(sm.e.x, dpr))
    /\ NumEq(Add(Mul(p.y, sm.vt.scale), sm.vt.offsetY), Mul(sm.e.y, dpr))

CleanPenGestureEnds ==
    /\ tool = "pen"
    /\ gesture.clean
    /\ Len(gesture.path) >= 2
    /\ last'.op = "pointerUp"

\* C6: a pen gesture of one contact, down, one or more moves, up, appends
\* exactly one stroke to the end of the current page's strokes: its points
\* are the world images of the down point and of every move point in order,
\* its width and colour are the pen settings, and the strokes and texts
\* committed before, on this page and on the others, are unchanged.
C6_CleanPenGestureAppendsOneStroke ==
    [][ CleanPenGestureEnds =>
          /\ Len(strokes') = Len(strokes) + 1
          /\ SubSeq(strokes', 1, Len(strokes)) = strokes
          /\ LET stroke == strokes'[Len(strokes')]
             IN  /\ Len(stroke.points) = Len(gesture.path)
                 /\ \A i \in 1..Len(gesture.path) :
                        ImageOf(stroke.points[i], gesture.path[i])
                 /\ stroke.strokeWidth = state.toolSettings.pen.size
                 /\ stroke.color = state.toolSettings.pen.color
                 /\ stroke.tool = "pen"
          /\ texts' = texts
          /\ state' = WithCurrentPage(state, currentPage')
      ]_vars
C6_Witness ==
    /\ last.op = "pointerUp"
    /\ tool = "pen"
    /\ OneRequest
    /\ Len(strokes) >= 2
    /\ strokes[Len(strokes)].points[1] # strokes[Len(strokes)].points[2]

\* The strokes the eraser of size e at the world point q reaches: those with
\* a point nearer to q than e/2 + w/2, w the stroke's width.
Reached(stroke, q) ==
    \E i \in 1..Len(stroke.points) :
        Lt(getDistance(stroke.points[i], q),
           Add(Div(state.toolSettings.eraser.size, I(2)), Div(stroke.strokeWidth, I(2))))

EraseEvent ==
    /\ tool = "eraser"
    /\ last'.op \in {"pointerDown", "pointerMove"}
    /\ Len(pointers') = 1

\* C10: an erase event at the world point q deletes the strokes of the page
\* that have a point within e/2 + w/2 of q, and keeps, in their order, the
\* strokes all of whose points are farther; a stroke whose segment passes by
\* q with both ends farther is kept.
C10_EraserDeletesReachedStrokesOnly ==
    [][ EraseEvent =>
          strokes' = SelectSeq(strokes, LAMBDA s : ~Reached(s, latestPointerPosition'))
      ]_vars

\* The containment of C10 on the pages whose strokes have distinct ids.
DistinctStrokeIds ==
    \A i, j \in 1..Len(strokes) : strokes[i].id = strokes[j].id => i = j
EraserDeletesReachedStrokesOnlyWhereIdsDiffer ==
    [][ (EraseEvent /\ DistinctStrokeIds) =>
          strokes' = SelectSeq(strokes, LAMBDA s : ~Reached(s, latestPointerPosition'))
      ]_vars

-----------------------------------------------------------------------------
(* Properties of the shape tool.                                           *)

ShapeGestureEnds ==
    /\ tool = "shape"
    /\ drawingShape # Null
    /\ last'.op = "pointerUp"

\* C12: a drag whose start and end coincide synthesizes no stroke, whatever
\* the kind of shape, so that pressing and releasing without moving leaves
\* the page and the history as they were.
C12_DegenerateDragAddsNothing ==
    [][ (ShapeGestureEnds /\ drawingShape.start = drawingShape.end)
            => /\ ShapeStrokes = <<>>
               /\ history' = history
               /\ index' = index
      ]_vars

\* The degenerate-drag law for the kinds that have a size threshold.
DegenerateDragAddsNothingForSolids ==
    [][ (/\ ShapeGestureEnds
         /\ drawingShape.start = drawingShape.end
         /\ state.toolSettings.shape.type \in {"cuboid", "pyramid"})
            => /\ ShapeStrokes = <<>>
               /\ history' = history
               /\ index' = index
      ]_vars

\* The strokes the synthesizer returns now for the arguments of the shape
\* gesture that has just ended.
SynthesizedAgain ==
    createStrokesForShape(last.shape.start, last.shape.end,
                          state.toolSettings.shape.type, state.toolSettings.shape.size,
                          state.toolSettings.shape.color)
Newest(n) == SubSeq(strokes, Len(strokes) - n + 1, Len(strokes))
AfterShapeGesture ==
    /\ last.op = "pointerUp"
    /\ last.shape # Null
    /\ tool = "shape"

\* C13: the synthesizer gives the same strokes, ids included, for the same
\* arguments at any two moments: called again, at any later moment, with the
\* arguments of the shape gesture that has just ended, it returns the strokes
\* that gesture put on the page.
C13_SynthesisIsPure ==
    AfterShapeGesture => SynthesizedAgain = Newest(Len(SynthesizedAgain))

\* The strokes of a list without their ids.
WithoutIds(ss) == SeqMap(ss, LAMBDA st : [st EXCEPT !.id = 0])

\* The purity of C13 for everything but the ids.
SynthesisIsPureButForIds ==
    AfterShapeGesture
        => WithoutIds(SynthesizedAgain) = WithoutIds(Newest(Len(SynthesizedAgain)))

\* C14: a rectangle drag from (x1, y1) to (x2, y2) adds exactly one stroke,
\* the closed polyline (x1,y1), (x2,y1), (x2,y2), (x1,y2), (x1,y1), with the
\* size and the colour of the shape settings; from (0,0) to (100,50) with
\* size 5 these are (0,0), (100,0), (100,50), (0,50), (0,0) and width 5.
C14_RectangleDragAddsClosedOutline ==
    [][ (ShapeGestureEnds /\ state.toolSettings.shape.type = "rectangle")
            => LET x1 == drawingShape.start.x
                   y1 == drawingShape.start.y
                   x2 == drawingShape.end.x
                   y2 == drawingShape.end.y
                   stroke == strokes'[Len(strokes')]
               IN  /\ Len(strokes') = Len(strokes) + 1
                   /\ SubSeq(strokes', 1, Len(strokes)) = strokes
                   /\ stroke.points =
                         <<Pt(x1, y1), Pt(x2, y1), Pt(x2, y2), Pt(x1, y2), Pt(x1, y1)>>
                   /\ stroke.strokeWidth = state.toolSettings.shape.size
                   /\ stroke.color = state.toolSettings.shape.color
                   /\ (/\ drawingShape.start = IPt(0, 0)
                       /\ drawingShape.end = IPt(100, 50)
                       /\ state.toolSettings.shape.size = I(5))
                        => /\ stroke.points = <<IPt(0, 0), IPt(100, 0), IPt(100, 50),
                                                IPt(0, 50), IPt(0, 0)>>
                           /\ stroke.strokeWidth = I(5)
      ]_vars
C14_Witness ==
    /\ last.op = "pointerUp"
    /\ tool = "shape"
    /\ OneRequest
    /\ Len(strokes) = 1
    /\ strokes[1].points = <<IPt(0, 0), IPt(100, 0), IPt(100, 50), IPt(0, 50), IPt(0, 0)>>
    /\ strokes[1].strokeWidth = I(5)
    /\ strokes[1].color = "#000000"

-----------------------------------------------------------------------------
(* Properties of the gestures.                                             *)

IsSmall(rect) == Lt(rect.width, I(10)) \/ Lt(rect.height, I(10))

\* C11: once the contacts of a gesture are gone (released, cancelled or
\* lost), no selection rectangle with width < 10 or height < 10 is retained;
\* and a rectangle of at least 10 by 10 that is live with no contact down is
\* dropped by nothing but the start of a single-contact gesture or the answer
\* action.
C11_SelectionDiscard ==
    [][ /\ (pointers' = <<>> /\ selectionRect' # Null) => ~IsSmall(selectionRect')
        /\ (/\ pointers = <<>>
            /\ selectionRect # Null
            /\ ~IsSmall(selectionRect)
            /\ selectionRect' # selectionRect)
           => (selectionRect' = Null /\ last'.op \in {"pointerDown", "answer"})
      ]_vars

\* The same, for gestures whose contact is released or cancelled, not lost
\* by leaving the canvas.
SelectionDiscardOnRelease ==
    [][ /\ (pointers' = <<>> /\ selectionRect' # Null /\ last'.op = "pointerUp")
           => ~IsSmall(selectionRect')
        /\ (/\ pointers = <<>>
            /\ selectionRect # Null
            /\ ~IsSmall(selectionRect)
            /\ selectionRect' # selectionRect)
           => (selectionRect' = Null /\ last'.op \in {"pointerDown", "answer"})
      ]_vars

NoTransientState ==
    /\ ~isDrawing
    /\ currentStrokePoints = <<>>
    /\ drawingShape = Null
    /\ draggedItem = Null
    /\ selectionStartPoint = Null

ContactLost == last'.op \in {"pointerUp", "pointerLeave"}

\* An in-flight stroke or shape that is non-trivial is appended to the page
\* by the step that loses a contact.
InFlightWorkCommitted ==
    /\ (tool = "pen" /\ isDrawing /\ Len(currentStrokePoints) > 1)
          => /\ Len(strokes') = Len(strokes) + 1
             /\ strokes'[Len(strokes')].points = currentStrokePoints
    /\ (tool = "shape" /\ isDrawing /\ drawingShape # Null /\ ShapeStrokes # <<>>)
          => /\ Len(strokes') = Len(strokes) + Len(ShapeStrokes)
             /\ SubSeq(strokes', Len(strokes) + 1, Len(strokes')) = ShapeStrokes

\* C15: a contact lost by lift, cancel or leave finalizes the gesture: when
\* the last contact is gone there is no in-progress stroke, no shape preview,
\* no text drag and no selection anchor, and a non-trivial in-flight stroke
\* or shape has been committed by the step that lost the contact.
C15_ContactLossFinalizes ==
    [][ ContactLost => /\ pointers' = <<>> => NoTransientState'
                       /\ InFlightWorkCommitted
      ]_vars

\* The same, for contacts that are lifted or cancelled.
ReleaseFinalizes ==
    [][ last'.op = "pointerUp" => /\ pointers' = <<>> => NoTransientState'
                                  /\ InFlightWorkCommitted
      ]_vars

\* A leave finalizes the gestures of the pen and the shape tool.
LeaveFinalizesDrawing ==
    [][ (last'.op = "pointerLeave" /\ tool \in {"pen", "shape"})
           => /\ pointers' = <<>> => NoTransientState'
              /\ InFlightWorkCommitted
      ]_vars

\* A move of one of two registered contacts.
MoveOfTwo == Len(pointers) = 2 /\ last'.op = "pointerMove"

Preempted ==
    /\ currentStrokePoints' = currentStrokePoints
    /\ strokes' = strokes
    /\ texts' = texts
    /\ drawingShape' = drawingShape
    /\ selectionRect' = selectionRect
    /\ draggedTextPosition' = draggedTextPosition
    /\ lastGesture # Null
    /\ viewTransform' = pinchTransform(viewTransform, lastGesture,
                                       pointers'[1].p, pointers'[2].p)

\* C16: once a second contact has registered, a move of either contact
\* appends no point, erases nothing, leaves the shape preview, the selection
\* rectangle and the position of a dragged text as they are, and drives the
\* pinch-zoom/pan of the viewport, whatever the tool and the interaction.
C16_SecondContactPreempts == [][ MoveOfTwo => Preempted ]_vars

\* The same, for every interaction but a text drag.
SecondContactPreemptsButTextDrag ==
    [][ (MoveOfTwo /\ draggedItem = Null) => Preempted ]_vars

\* What redrawCanvas paints as work in progress, and the moves that pan the
\* viewport or sweep the eraser with one contact.
InProgressStroke == currentStrokePoints # <<>> /\ isDrawing /\ tool = "pen"
ShapeDrag        == isDrawing /\ tool = "shape" /\ drawingShape # Null
TextDrag         == draggedItem # Null
SingleContactMove ==
    last'.op = "pointerMove" /\ Len(pointers') = 1 /\ draggedItem = Null
PanStep   == SingleContactMove /\ tool = "hand" /\ viewTransform' # viewTransform
EraseStep == SingleContactMove /\ tool = "eraser"

\* C17: a contact that goes down while no other is active clears the
\* selection rectangle, with any tool; and a selection rectangle never
\* coexists with an in-progress stroke, a shape drag, a text drag, or a move
\* that sweeps the eraser or pans the viewport.
C17_SelectionIsExclusive ==
    [][ /\ (last'.op = "pointerDown" /\ pointers = <<>>) => selectionRect' = Null
        /\ selectionRect' # Null
              => /\ ~InProgressStroke' /\ ~ShapeDrag' /\ ~TextDrag'
                 /\ ~(selectionRect # Null /\ (PanStep \/ EraseStep))
      ]_vars

-----------------------------------------------------------------------------
(* Properties of recognition.                                              *)

\* The steps that end a pending call.
RecognitionFails ==
    recognition # Null /\ recognition' = Null /\ last'.op = "recognizeFail"
RecognitionSucceeds ==
    recognition # Null /\ recognition' = Null /\ last'.op = "recognizeSucceed"

\* C18: a recognition call that fails leaves the drawing model as it was: the
\* history and its cursor, and with them the strokes and the texts of the
\* page, are unchanged and no commit is asked for; of the state of the
\* application only the error message and the loading flag change.
C18_FailureLeavesModelUnchanged ==
    [][ RecognitionFails
           => /\ history' = history
              /\ index' = index
              /\ strokes' = strokes
              /\ texts' = texts
              /\ requests' = <<>>
              /\ error' = ErrorMessage("Failed to recognize handwriting. Please try again.")
              /\ ~isLoading'
              /\ UNCHANGED <<instanceState, synced, answer, confirmation,
                             pendingAnswer, crashed, viewTransform, tool, dpr,
                             canvasVars, now, steps>>
      ]_vars
C18_Witness ==
    /\ last.op = "recognizeFail"
    /\ Len(strokes) > 0
    /\ Len(history) > 1
    /\ error = ErrorMessage("Failed to recognize handwriting. Please try again.")
    /\ ~isLoading

\* The strokes rendered into the submitted image: those of the page the call
\* started from.
SubmittedStrokes == Present(recognition.k).pages[Present(recognition.k).currentPageIndex + 1].strokes
\* The bounds of the inserted text: those of the region, the top moved by
\* the ruled snap.
InsertedBounds ==
    IF recognition.canvasStyle.backgroundType = "copybook"
    THEN [recognition.bounds EXCEPT
            !.y = SnapY(recognition.bounds.y, recognition.canvasStyle.fontSize)]
    ELSE recognition.bounds

\* C19: a recognition call that succeeds appends exactly one text, with the
\* returned text and the bounds of the recognised region, removes the
\* strokes that were submitted and no other stroke, and keeps the texts the
\* page had.
C19_SuccessReplacesSubmittedStrokes ==
    [][ RecognitionSucceeds
           => /\ Len(texts') = Len(texts) + 1
              /\ SubSeq(texts', 1, Len(texts)) = texts
              /\ texts'[Len(texts')].text = last'.result
              /\ texts'[Len(texts')].bounds = InsertedBounds
              /\ strokes' = SelectSeq(strokes, LAMBDA st : st \notin Range(SubmittedStrokes))
      ]_vars

\* The same, for a call during which nothing was committed.
SuccessReplacesSubmittedStrokesOfQuietCall ==
    [][ (RecognitionSucceeds /\ ~last'.stale)
           => /\ Len(texts') = Len(texts) + 1
              /\ SubSeq(texts', 1, Len(texts)) = texts
              /\ texts'[Len(texts')].text = last'.result
              /\ texts'[Len(texts')].bounds = InsertedBounds
              /\ strokes' = SelectSeq(strokes, LAMBDA st : st \notin Range(SubmittedStrokes))
      ]_vars

\* C20: what was committed while a recognition call was pending is kept:
\* every snapshot pushed since the call started is in the history after the
\* result is committed, and the result is the state current at completion
\* with the text appended and the submitted strokes removed.
C20_PendingWorkIsKept ==
    [][ RecognitionSucceeds
           => /\ \A i \in (recognition.k + 2)..(index + 1) :
                    \E j \in 1..Len(history') : history'[j] = history[i]
              /\ state' = WithCurrentPage(state,
                    [currentPage EXCEPT
                       !.strokes = SelectSeq(@, LAMBDA st : st \notin Range(SubmittedStrokes)),
                       !.texts = Append(@, RecognizedText(now, last'.result, InsertedBounds,
                                                         recognition.canvasStyle.fontFamily,
                                                         recognition.canvasStyle.fontSize))])
      ]_vars

\* The same, for a call during which nothing was committed.
QuietCallIsAppliedOnTop ==
    [][ (RecognitionSucceeds /\ ~last'.stale)
           => /\ \A i \in (recognition.k + 2)..(index + 1) :
                    \E j \in 1..Len(history') : history'[j] = history[i]
              /\ state' = WithCurrentPage(state,
                    [currentPage EXCEPT
                       !.strokes = SelectSeq(@, LAMBDA st : st \notin Range(SubmittedStrokes)),
                       !.texts = Append(@, RecognizedText(now, last'.result, InsertedBounds,
                                                         recognition.canvasStyle.fontFamily,
                                                         recognition.canvasStyle.fontSize))])
      ]_vars

-----------------------------------------------------------------------------
(* Properties of the answer button.                                        *)

\* The click on the button while a selection rectangle is on the screen, and
\* the end of the call it started.
AnswerClick   == selectionRect # Null /\ last'.op = "answer" /\ selectionRect' = Null
AnswerSettles == pendingAnswer # Null /\ pendingAnswer' = Null
AnswerAction  == AnswerClick \/ AnswerSettles

\* C21: the answer action on a live selection rectangle only adds to what is
\* displayed: whether the call succeeds or fails, the click and the end of
\* the call leave the history, the cursor, every page with its strokes and
\* texts, the settings, the view and the gesture in progress as they were;
\* only the answer, the error message, the loading flag and the selection
\* rectangle may change.
C21_AnswerIsAdditive ==
    [][AnswerAction =>
          UNCHANGED <<history, index, crashed, instanceState, synced, confirmation,
                      recognition, viewTransform, tool, dpr, pointers, lastGesture,
                      isDrawing, currentStrokePoints, latestPointerPosition,
                      draggedItem, selectionStartPoint, drawingShape, now>>]_vars

\* An answer has arrived, and a failure has been reported, on a page with a
\* text, strokes and a history that has grown.
C21_Witness ==
    /\ last.op = "answerFail"
    /\ answer # Null
    /\ ~isLoading
    /\ Len(history) > 1
    /\ Len(strokes) > 0
    /\ Len(texts) > 0

-----------------------------------------------------------------------------
(* Properties of the hand tool, the view and the history.                  *)

\* A pan move, a pinch move or a turn of the wheel; a step of undo or redo
\* that moved the cursor.
ViewGesture == steps' # steps
CursorWalk  == last'.op \in {"undo", "redo"} /\ index' # index

\* C22: pan, wheel zoom and pinch never add a history entry or move the
\* cursor, and undo and redo never change the view transform.
C22_ViewIsOutsideHistory ==
    [][/\ ViewGesture => history' = history /\ index' = index
       /\ CursorWalk => viewTransform' = viewTransform]_vars

\* A redo after an undo, in a behaviour whose view was changed by a gesture
\* and is still as the gesture left it.
C22_Witness ==
    /\ last.op = "redo"
    /\ last.afterUndo
    /\ steps = 1
    /\ viewTransform # ViewTransform(I(2), I(-6), I(-8))

-----------------------------------------------------------------------------
(* Properties of the granularity of the history.                           *)

\* A step of an event handler, as opposed to a flush of the effects; the
\* release of a contact.
HandlerStep == synced' = synced /\ instanceState' = instanceState
ContactReleased ==
    HandlerStep /\ last'.op = "pointerUp" /\ Len(pointers') < Len(pointers)

\* The five operations of the claim.
PenCommit   == ContactReleased /\ tool = "pen" /\ Len(currentStrokePoints) > 1
ShapeCommit ==
    ContactReleased /\ tool = "shape" /\ drawingShape # Null /\ ShapeStrokes # <<>>
EraseDeletes ==
    /\ HandlerStep
    /\ tool = "eraser"
    /\ last'.op \in {"pointerDown", "pointerMove"}
    /\ Len(pointers') = 1
    /\ draggedItem = Null
    /\ StrokeIdsToDelete(latestPointerPosition')
          \cup TextIdsToDelete(latestPointerPosition') # {}
TextInsertion == RecognitionSucceeds
TextDragCompletion == ContactReleased /\ DraggedText # {}

\* One entry is added at the cursor: the cursor advances by one onto the last
\* entry, and the entries up to the old cursor are kept.
OneEntryAdded ==
    /\ index' = index + 1
    /\ Len(history') = index' + 1
    /\ SubSeq(history', 1, index + 1) = SubSeq(history, 1, index + 1)

\* C23: each of a pen stroke commit, a shape commit, an erase event that
\* deletes at least one item, the insertion of a recognised text and the
\* completion of a text drag adds exactly one history entry: the history
\* grows by one and the cursor advances by one.
C23_OneEntryPerOperation ==
    [][(PenCommit \/ ShapeCommit \/ EraseDeletes \/ TextInsertion \/ TextDragCompletion)
          => OneEntryAdded /\ Len(history') = Len(history) + 1]_vars

\* The same for the operations of the canvas alone, with the entry counted
\* at the cursor.
CanvasOperationAddsOneEntry ==
    [][(PenCommit \/ ShapeCommit \/ EraseDeletes \/ TextDragCompletion)
          => OneEntryAdded]_vars

-----------------------------------------------------------------------------
(* Properties of the settings.                                             *)

\* A change of a tool or style setting by its control; the settings of the
\* present snapshot.
SettingChange ==
    HandlerStep /\ last'.op \in {"sizeChange", "setCanvasStyle", "setShapeType"}
             /\ last' # last
Settings(st) == <<st.toolSettings, st.canvasStyle>>

\* C24: tool and style settings are outside the scope of the history: a
\* change of a tool setting or of a style setting adds no history entry and
\* does not truncate the redo suffix, and undo and redo never change the
\* tool or style settings.
C24_SettingsAreOutsideHistory ==
    [][/\ SettingChange => history' = history /\ index' = index
       /\ CursorWalk => Settings(state') = Settings(state)]_vars

\* Undo and redo never change the settings.
CursorWalkKeepsSettings ==
    [][CursorWalk => Settings(state') = Settings(state)]_vars

-----------------------------------------------------------------------------
(* Properties of the stroke ids.                                           *)

\* The strokes of page p of the present snapshot.
StrokesOfPage(p) == state.pages[p].strokes

\* C25: the ids of the strokes of a page are pairwise different, whatever the
\* pen and shape commits that put them there and whatever the clock showed
\* at each commit, so that deleting a stroke by its id removes that stroke
\* only.
C25_StrokeIdsAreUnique ==
    \A p \in 1..Len(state.pages) :
        \A i, j \in 1..Len(StrokesOfPage(p)) :
            i # j => StrokesOfPage(p)[i].id # StrokesOfPage(p)[j].id

\* The strokes of one commit have different ids: two strokes with one id
\* were committed by different gestures.
StrokeIdsAreUniqueWithinCommit ==
    [][(ContactReleased /\ tool = "shape" /\ drawingShape # Null)
          => \A i, j \in 1..Len(ShapeStrokes) :
                i # j => ShapeStrokes[i].id # ShapeStrokes[j].id]_vars

-----------------------------------------------------------------------------
(* Properties of the moves of a contact that is not down.                  *)

UntrackedMove ==
    /\ HandlerStep
    /\ last'.op = "pointerMove"
    /\ ~PointersHas(pointers, last'.id)
    /\ ~PointersHas(pointers', last'.id)

\* C26: a move for a contact id that is not tracked changes no state of the
\* engine at all: not the document or the history, the view transform, the
\* in-progress stroke or shape, the selection, the contact table, nor the
\* position at which a dragged text is placed.
C26_UntrackedMoveIsIgnored ==
    [][UntrackedMove =>
          /\ UNCHANGED <<history, index, viewTransform, currentStrokePoints,
                         drawingShape, isDrawing, selectionRect, selectionStartPoint,
                         pointers, lastGesture, draggedItem>>
          /\ latestPointerPosition' = latestPointerPosition
          /\ draggedTextPosition' = draggedTextPosition]_vars

\* All of it but the position.
UntrackedMoveKeepsAllButPosition ==
    [][UntrackedMove =>
          UNCHANGED <<history, index, viewTransform, currentStrokePoints,
                      drawingShape, isDrawing, selectionRect, selectionStartPoint,
                      pointers, lastGesture, draggedItem>>]_vars
\* The place of a text under drag, which the next repaint uses.
UntrackedMoveKeepsDraggedText ==
    [][(UntrackedMove /\ draggedItem # Null)
          => draggedTextPosition' = draggedTextPosition]_vars

-----------------------------------------------------------------------------
(* Properties of the pen strokes of no length.                             *)

\* The release that ends a pen gesture; the points recorded are fewer than
\* two, or all one point.
PenGestureEnds == ContactReleased /\ tool = "pen" /\ draggedItem = Null
TooFewPoints   == Len(currentStrokePoints) < 2
AllPointsCoincide ==
    \A i \in 1..Len(currentStrokePoints) :
        PtEq(currentStrokePoints[i], currentStrokePoints[1])
NothingAdded ==
    /\ history' = history
    /\ index' = index
    /\ crashed' = crashed
    /\ error' = error

\* C27: a pen gesture whose recorded points are fewer than two, or all
\* coincide, adds no stroke and no history entry, and raises no error.
C27_ZeroLengthStrokeIsRejected ==
    [][(PenGestureEnds /\ (TooFewPoints \/ AllPointsCoincide)) => NothingAdded]_vars

\* The half of the claim about gestures of fewer than two points.
SinglePointStrokeIsRejected ==
    [][(PenGestureEnds /\ TooFewPoints) => NothingAdded]_vars

-----------------------------------------------------------------------------
(* Properties of Clear Canvas.                                             *)

\* The confirmation of a clear, the opening of its dialog, and the page a
\* snapshot shows.
ClearConfirmed ==
    /\ confirmation # Null
    /\ confirmation' = Null
    /\ last'.op = "confirm"
    /\ last'.kind = "clear"
ClearDialogOpens == confirmation = Null /\ last'.op = "requestClear" /\ confirmation' # Null
PageOf(st) == st.pages[st.currentPageIndex + 1]
ShowsCleared(st) ==
    \/ Range(PageOf(st).strokes) \cap Range(currentPage.strokes) # {}
    \/ Range(PageOf(st).texts) \cap Range(currentPage.texts) # {}

\* C28: a confirmed Clear Canvas cannot be undone: once it is confirmed, no
\* snapshot that undo can reach, the present one and those before it in the
\* history, shows a stroke or a text that was cleared; and on a page without
\* strokes and texts the request opens no dialog and changes nothing.
C28_ClearCannotBeUndone ==
    [][/\ ClearConfirmed => \A j \in 1..(index' + 1) : ~ShowsCleared(history'[j])
       /\ ClearDialogOpens => Len(currentPage.strokes) + Len(currentPage.texts) > 0]_vars

\* The half of the claim about the empty page: a dialog for Clear is open
\* only if the page had content when it was asked for.
ClearOfEmptyPageOpensNothing ==
    [][ClearDialogOpens => Len(currentPage.strokes) + Len(currentPage.texts) > 0]_vars
\* What the confirmation does: the present page is empty afterwards.
ClearEmptiesPresentPage ==
    [][ClearConfirmed => Len(currentPage'.strokes) + Len(currentPage'.texts) = 0]_vars

-----------------------------------------------------------------------------
(* Properties of the commit of a shape.                                    *)

\* The number of strokes of a shape of each kind.
StrokeCount(type) ==
    IF type = "cuboid" THEN 6 ELSE IF type = "pyramid" THEN 5 ELSE 1

\* The hook after the step, and the page a hook shows.
HookAfter == [h |-> history', i |-> index', crashed |-> crashed', log |-> <<>>]
ShownBy(hs) == PageOf(hs.h[hs.i + 1])

-----------------------------------------------------------------------------
(* Properties of the hand tool.                                            *)

\* The world point p lies in the bounds b, edges included.
Inside(p, b) ==
    /\ Le(b.x, p.x) /\ Le(p.x, Add(b.x, b.width))
    /\ Le(b.y, p.y) /\ Le(p.y, Add(b.y, b.height))
Covering(p) == {i \in 1..Len(texts) : Inside(p, texts[i].bounds)}

\* The first contact goes down with the hand tool; a contact that is down
\* moves; it is the only one and no text is dragged.
HandDown ==
    /\ HandlerStep
    /\ tool = "hand"
    /\ last'.op = "pointerDown"
    /\ pointers = <<>>
    /\ Len(pointers') = 1
HandMove ==
    /\ HandlerStep
    /\ tool = "hand"
    /\ last'.op = "pointerMove"
    /\ PointersHas(pointers, last'.id)
PanMove == HandMove /\ Len(pointers) = 1 /\ draggedItem = Null

\* C30: with the hand tool a first contact that lands inside the bounds,
\* edges included, of one or more texts starts a drag of the one of them
\* inserted last, and the moves during the drag leave the view transform
\* unchanged; a first contact that lands outside every text starts no drag,
\* and each move of that contact adds its displacement in device pixels to
\* the offset and leaves the scale and the document unchanged.
C30_HandDragsTextOrPans ==
    [][/\ HandDown =>
             LET p == latestPointerPosition'
             IN  IF Covering(p) # {}
                 THEN \E i \in Covering(p) :
                         /\ \A j \in Covering(p) : j <= i
                         /\ draggedItem' # Null
                         /\ draggedItem'.id = texts[i].id
                         /\ draggedItem'.initialBounds = texts[i].bounds
                         /\ draggedItem'.startPoint = p
                 ELSE draggedItem' = Null
       /\ (HandMove /\ draggedItem # Null) => viewTransform' = viewTransform
       /\ PanMove =>
             LET from == pointers[1].p
                 to   == pointers'[1].p
             IN  /\ viewTransform'.offsetX
                       = Add(viewTransform.offsetX, Mul(Sub(to.x, from.x), dpr))
                 /\ viewTransform'.offsetY
                       = Add(viewTransform.offsetY, Mul(Sub(to.y, from.y), dpr))
                 /\ viewTransform'.scale = viewTransform.scale
                 /\ history' = history
                 /\ index' = index]_vars

\* The contact went down on the corner that the two texts share and dragged
\* the newer one away, the older one staying; afterwards a contact that went
\* down outside the texts has panned the view.
C30_Witness ==
    /\ last.op = "pointerMove"
    /\ ~last.pinch
    /\ Len(pointers) = 1
    /\ draggedItem = Null
    /\ viewTransform.scale = I(2)
    /\ viewTransform.offsetX # I(-6)
    /\ texts[1].bounds = HandOlderText.bounds
    /\ texts[2].bounds # HandNewerText.bounds

-----------------------------------------------------------------------------
(* Properties of the ruled snap.                                           *)

\* The bounds a completed drag asks for before any snap, and the text it
\* places; the text a recognition places.
RawDrop ==
    LET currentPoint == getPointInWorldSpace(pointers[PointersGet(pointers, 1)].p)
    IN  [draggedItem.initialBounds EXCEPT
            !.x = Add(@, Sub(currentPoint.x, draggedItem.startPoint.x)),
            !.y = Add(@, Sub(currentPoint.y, draggedItem.startPoint.y))]
DroppedTexts ==
    LET page == PageOf(state')
    IN  {page.texts[i] : i \in {j \in 1..Len(page.texts) :
                                   page.texts[j].id = draggedItem.id}}
InsertedText == LET page == PageOf(state') IN page.texts[Len(page.texts)]

\* The baseline of a text is on the rule line nearest to a raw baseline, and
\* the text is otherwise where the raw bounds put it.
OnNearestRule(text, raw) ==
    LET baseline == Add(text.bounds.y, text.fontSize)
        rawBaseline == Add(raw.y, text.fontSize)
    IN  /\ baseline[2] = 1
        /\ baseline[1] % lineSpacing = 0
        /\ Le(MathAbs(Sub(baseline, rawBaseline)), I(lineSpacing \div 2))
        /\ text.bounds = [raw EXCEPT !.y = text.bounds.y]
Placed(text, raw, backgroundType) ==
    IF backgroundType = "copybook" THEN OnNearestRule(text, raw)
    ELSE text.bounds = raw

RuledSnapFollowsShownBackground ==
    [][/\ TextDragCompletion =>
             \A text \in DroppedTexts :
                Placed(text, RawDrop, state.canvasStyle.backgroundType)
       /\ TextInsertion =>
             Placed(InsertedText, recognition.bounds,
                    state.canvasStyle.backgroundType)]_vars


RecognitionPlacedOnRule ==
    /\ last.op = "recognizeSucceed"
    /\ state.canvasStyle.backgroundType = "copybook"
    /\ Len(texts) = 2
    /\ Add(texts[2].bounds.y, texts[2].fontSize) = I(lineSpacing)
DroppedOnGrid ==
    /\ last.op = "pointerUp"
    /\ tool = "hand"
    /\ state.canvasStyle.backgroundType = "grid"
    /\ \E i \in 1..Len(texts) : texts[i].bounds = Bounds(I(30), I(40), I(20), I(20))

-----------------------------------------------------------------------------
(* Properties of the completion of a text drag.                            *)

\* The contact whose first event set the drag's start point, and the bounds
\* the drag's start translated by that contact's displacement so far; a page
\* on which the dragged text alone changed, to given bounds with the ruled
\* snap applied.
StartingContact ==
    CHOOSE c \in {1, 2} :
        \E e \in HandEvents(c) : getPointInWorldSpace(e) = draggedItem.startPoint
TranslatedBy(c) ==
    LET currentPoint == getPointInWorldSpace(pointers[PointersGet(pointers, c)].p)
    IN  [draggedItem.initialBounds EXCEPT
            !.x = Add(@, Sub(currentPoint.x, draggedItem.startPoint.x)),
            !.y = Add(@, Sub(currentPoint.y, draggedItem.startPoint.y))]
DropMovesOnly(newBounds) ==
    LET before == PageOf(state)
        after  == PageOf(state')
    IN  /\ after.strokes = before.strokes
        /\ Len(after.texts) = Len(before.texts)
        /\ \A i \in 1..Len(before.texts) :
              after.texts[i] =
                 IF before.texts[i].id = draggedItem.id
                 THEN [before.texts[i] EXCEPT
                          !.bounds =
                             IF state.canvasStyle.backgroundType = "copybook"
                             THEN [newBounds EXCEPT
                                      !.y = SnapY(@, before.texts[i].fontSize)]
                             ELSE newBounds]
                 ELSE before.texts[i]
        /\ state'.pages = [state.pages EXCEPT ![state.currentPageIndex + 1] = after]

\* C32: when a text drag completes, the bounds of the dragged text are its
\* initial bounds translated by the world-space displacement of the contact
\* that started the drag, from its down point to where it is at the
\* completion, also when a second contact went down and lifted during the
\* drag; no other text and no stroke changes.
C32_DropFollowsStartingContact ==
    [][TextDragCompletion =>
          /\ PointersHas(pointers, StartingContact)
          /\ DropMovesOnly(TranslatedBy(StartingContact))]_vars

\* The same for the drags during which one contact only is down.
LoneDropFollowsStartingContact ==
    [][(TextDragCompletion /\ Len(pointers) = 1) =>
          /\ last'.id = StartingContact
          /\ DropMovesOnly(TranslatedBy(StartingContact))]_vars
\* The drop is made by the first contact that is released, with its position.
DropFollowsReleasedContact ==
    [][TextDragCompletion => DropMovesOnly(TranslatedBy(last'.id))]_vars

-----------------------------------------------------------------------------
(* Properties of the synthesized outlines.                                 *)

\* The kinds whose single stroke is a closed outline, the kinds that walk
\* ellipses, and the positions of the closed outlines in the stroke list.
PolygonalKinds ==
    {"rectangle", "square", "triangle", "rightTriangle", "rhombus", "parallelogram",
     "trapezoid", "pentagon", "hexagon", "star"}
EllipseKinds == {"circle", "oval", "cone", "cylinder", "sphere"}
Outlines(type) ==
    CASE type = "cylinder" -> {1, 2}
      [] type = "sphere" -> {1, 2, 3}
      [] OTHER -> {1}
IsClosed(stroke) == stroke.points[1] = stroke.points[Len(stroke.points)]
ShapeType == state.toolSettings.shape.type
OutlinesAreClosed ==
    \A k \in Outlines(ShapeType) : IsClosed(ShapeStrokes[k])

\* C33: a shape of a closed kind (rectangle, square, circle, oval, triangle,
\* right triangle, rhombus, parallelogram, trapezoid, pentagon, hexagon, star,
\* and the ellipses of cone, cylinder and sphere) committed by a drag that is
\* not degenerate has outlines whose last point is their first; an ellipse
\* walk ends at a whole turn.
C33_OutlinesAreClosed ==
    [][(ShapeCommit /\ ShapeType \in PolygonalKinds \cup EllipseKinds)
          => OutlinesAreClosed]_vars

\* The same for the kinds that walk no ellipse, and for the ellipses whose
\* radii add up to at most 40.
PolygonalOutlinesAreClosed ==
    [][(ShapeCommit /\ ShapeType \in PolygonalKinds) => OutlinesAreClosed]_vars
SmallEllipsesAreClosed ==
    [][(ShapeCommit /\ ShapeType \in EllipseKinds /\ drawingShape.end = IPt(6, 8))
          => OutlinesAreClosed]_vars
\* An ellipse walk is closed exactly when its step count is a whole number:
\* the walk has floor(steps) + 1 samples, the last at floor(steps)/steps turns.
WalkIsClosedIffStepsAreWhole ==
    [][(ShapeCommit /\ ShapeType \in {"circle", "oval"})
          => LET width  == MathAbs(Sub(drawingShape.end.x, drawingShape.start.x))
                 height == MathAbs(Sub(drawingShape.end.y, drawingShape.start.y))
                 radiusX == Div(width, I(2))
                 radiusY == IF ShapeType = "circle" THEN radiusX ELSE Div(height, I(2))
             IN  OutlinesAreClosed <=> EllipseSteps(radiusX, radiusY)[2] = 1]_vars


\* The strokes of the shape being committed carry the width and the colour
\* of the shape settings, which the call is given; their ids count up from
\* the clock's value.
CarriesWidth(stroke) == stroke.strokeWidth = state.toolSettings.shape.size
CarriesColor(stroke) == stroke.color = state.toolSettings.shape.color
IdsCountUp ==
    \A k \in 1..Len(ShapeStrokes) : ShapeStrokes[k].id = now + k - 1

\* C34: every stroke emitted by one synthesis call carries the stroke width
\* and the colour passed to the call, and the ids of the strokes are base,
\* base + 1, ..., base + n - 1, distinct within the call.
C34_StrokesCarryWidthColorAndIds ==
    [][ShapeCommit =>
          /\ \A k \in 1..Len(ShapeStrokes) :
                CarriesWidth(ShapeStrokes[k]) /\ CarriesColor(ShapeStrokes[k])
          /\ IdsCountUp]_vars

\* The same without the sphere, and the colours and ids of all the kinds.
StrokesCarryWidthButSphere ==
    [][(ShapeCommit /\ ShapeType # "sphere") =>
          \A k \in 1..Len(ShapeStrokes) : CarriesWidth(ShapeStrokes[k])]_vars
StrokesCarryColorAndIds ==
    [][ShapeCommit =>
          /\ \A k \in 1..Len(ShapeStrokes) : CarriesColor(ShapeStrokes[k])
          /\ IdsCountUp
          /\ \A j, k \in 1..Len(ShapeStrokes) :
                j # k => ShapeStrokes[j].id # ShapeStrokes[k].id
          /\ PageOf(state').strokes = PageOf(state).strokes \o ShapeStrokes]_vars


\* C35: a square drag that is not a point commits one closed outline of five
\* points with a corner at the drag's start and the opposite corner at the
\* distance max(|dx|, |dy|) from it on both axes, on the side of the drag on
\* each axis and on the positive side on an axis where the drag has not
\* moved.
C35_SquareKeepsQuadrant ==
    [][(ShapeCommit /\ ShapeType = "square" /\ drawingShape.start # drawingShape.end)
          => LET x1 == drawingShape.start.x
                 y1 == drawingShape.start.y
                 dx == Sub(drawingShape.end.x, x1)
                 dy == Sub(drawingShape.end.y, y1)
                 size == MathMax(MathAbs(dx), MathAbs(dy))
                 points == ShapeStrokes[1].points
                 opposite == points[3]
             IN  /\ Len(ShapeStrokes) = 1
                 /\ Len(points) = 5
                 /\ points[1] = drawingShape.start
                 /\ points[5] = drawingShape.start
                 /\ points[2] = Pt(opposite.x, y1)
                 /\ points[4] = Pt(x1, opposite.y)
                 /\ MathAbs(Sub(opposite.x, x1)) = size
                 /\ MathAbs(Sub(opposite.y, y1)) = size
                 /\ IF Lt(dx, I(0)) THEN Lt(opposite.x, x1) ELSE Gt(opposite.x, x1)
                 /\ IF Lt(dy, I(0)) THEN Lt(opposite.y, y1) ELSE Gt(opposite.y, y1)
                 /\ PageOf(state').strokes = PageOf(state).strokes \o ShapeStrokes]_vars

\* Squares were committed towards the upper left, where y grows downwards,
\* with the opposite corner at (-80, -80), and along the y axis, with the
\* opposite corner at (80, 80).
SquareOn(opposite) ==
    /\ last.op = "pointerUp"
    /\ ShapeType = "square"
    /\ Len(strokes) = 1
    /\ strokes[1].points[3] = opposite
C35_Witness == SquareOn(IPt(-80, -80))
SquareAlongAxis == SquareOn(IPt(80, 80)) /\ last.shape.end = IPt(0, 80)
SquareInOtherQuadrants ==
    \/ SquareOn(IPt(80, -80))
    \/ SquareOn(IPt(-80, 80))

-----------------------------------------------------------------------------
(* Properties of the eraser's frame.                                       *)

\* A down or a move of the single contact that is down, with the eraser, and
\* the items its hit test selects at the event's world point.
EraserContactEvent ==
    /\ HandlerStep
    /\ tool = "eraser"
    /\ last'.op \in {"pointerDown", "pointerMove"}
    /\ Len(pointers') = 1
    /\ PointersHas(pointers', last'.id)
HitStroke(s) == StrokeHit(s, latestPointerPosition', EraserRadius)
HitText(t)   == TextHit(t, latestPointerPosition', EraserRadius)
NothingHit ==
    /\ \A i \in 1..Len(strokes) : ~HitStroke(strokes[i])
    /\ \A i \in 1..Len(texts) : ~HitText(texts[i])
HitItemsRemoved ==
    LET after == PageOf(state')
    IN  /\ after.strokes = SelectSeq(strokes, LAMBDA s : ~HitStroke(s))
        /\ after.texts = SelectSeq(texts, LAMBDA t : ~HitText(t))
        /\ state'.pages = [state.pages EXCEPT ![state.currentPageIndex + 1] = after]

\* C36: with the eraser, the down event and every move of the single active
\* contact remove from the current page exactly the strokes and texts that
\* the hit test of the event selects: the items not hit keep their content
\* and their order, the other pages are unchanged, and an event that hits
\* nothing changes neither the document nor the history.
C36_EraserRemovesHitItemsOnly ==
    [][EraserContactEvent =>
          /\ HitItemsRemoved
          /\ NothingHit => (history' = history /\ index' = index)]_vars

\* The same on the pages whose strokes have distinct ids.
EraserRemovesHitItemsOnlyWhereIdsDiffer ==
    [][(EraserContactEvent /\ DistinctStrokeIds) =>
          /\ HitItemsRemoved
          /\ NothingHit => (history' = history /\ index' = index)]_vars
\* An event that hits nothing changes neither the document nor the history.
EraserMissChangesNothing ==
    [][(EraserContactEvent /\ NothingHit) =>
          (history' = history /\ index' = index)]_vars

-----------------------------------------------------------------------------
(* Properties of the pages.                                                *)

\* Every snapshot of the history has a current page.
PageIndexInRange ==
    \A k \in 1..Len(history) :
        /\ history[k].currentPageIndex >= 0
        /\ history[k].currentPageIndex < Len(history[k].pages)

\* A page change to an index out of range is a no-op; the Add Page button
\* appends an empty page to the pages shown and makes it current.
PageChangeOutOfRange ==
    /\ HandlerStep
    /\ last'.op = "changePage"
    /\ last' # last
    /\ (last'.newIndex < 0 \/ last'.newIndex >= Len(state.pages))
PageAdded == HandlerStep /\ last'.op = "addPage" /\ last' # last
PageSteps ==
    /\ PageChangeOutOfRange => UNCHANGED <<history, index, instanceState>>
    /\ PageAdded =>
          /\ Len(state'.pages) = Len(state.pages) + 1
          /\ SubSeq(state'.pages, 1, Len(state.pages)) = state.pages
          /\ state'.pages[Len(state'.pages)].strokes = <<>>
          /\ state'.pages[Len(state'.pages)].texts = <<>>
          /\ state'.currentPageIndex = Len(state.pages)
          /\ OneEntryAdded

\* C37: exactly one page is current: in every snapshot of the history
\* 0 <= currentPageIndex < number of pages; a page change to an index outside
\* that range is a no-op; adding a page appends an empty page at the end and
\* makes it current without altering the existing pages.
C37_OnePageIsCurrent == []PageIndexInRange /\ [][PageSteps]_vars

\* A page was added and is current; a page change to the index 2 of two
\* pages was asked for.
C37_Witness ==
    /\ last.op = "addPage"
    /\ Len(state.pages) = 2
    /\ state.currentPageIndex = 1
PageChangeRefused ==
    /\ last.op = "changePage"
    /\ last.newIndex = Len(state.pages)
    /\ Len(state.pages) = 2

-----------------------------------------------------------------------------
(* Properties of the sync effects.                                         *)

\* The effects have settled: the instance state of App is the present of the
\* history and no effect has work to do.  A flush of the effects, and a flush
\* that adds an entry to the history.
Settled == instanceState = state /\ ~Dirty
EffectStep == Dirty /\ last' = last /\ <<history, index, instanceState, synced>>' #
                                       <<history, index, instanceState, synced>>
EffectCommit == EffectStep /\ history' # history

\* C38: the two sync effects settle: after a user action (a commit, an undo,
\* a redo, or a tool setting changed from outside, such as a shape kind
\* picked) finitely many flushes lead to a state where the instance state is
\* the present of the history and no effect is enabled; the flushes add no
\* entry to the history but the one that brings in a setting changed from
\* outside, which finds the present of the history as the last flush left it.
C38_SyncEffectsSettle ==
    /\ Dirty ~> Settled
    /\ [][EffectCommit => ~StateChanged]_vars

\* The flushes that follow a pen stroke add no entry, and the flush that
\* follows a pick in the shape palette adds the one entry of the pick.
StrokeAndPaletteSettle ==
    [][/\ (EffectStep /\ last.op = "pointerUp") => history' = history
       /\ (EffectStep /\ last.op = "setShapeType" /\ ~StateChanged) =>
             /\ OneEntryAdded
             /\ state'.toolSettings = instanceState.toolSettings]_vars
\* The flush after a size set with the slider commits the size of the
\* instance state, which is the old one, and the flush after that the new one.
EffectsUndoTheSlider ==
    /\ last.op = "sizeChange"
    /\ Len(history) = 4
    /\ history[2].toolSettings.pen.size = history[4].toolSettings.pen.size
    /\ history[3].toolSettings.pen.size = history[1].toolSettings.pen.size
    /\ history[2].toolSettings.pen.size # history[1].toolSettings.pen.size

-----------------------------------------------------------------------------
(* Properties of the loading flag.                                         *)

\* At most one call to the services is in flight, and the loading flag is
\* set while one is; a click on the Answer button; the state of the program,
\* with and without the selection rectangle.
AtMostOneCall ==
    /\ ~(recognition # Null /\ pendingAnswer # Null)
    /\ (recognition # Null \/ pendingAnswer # Null) => isLoading
AnswerTrigger == HandlerStep /\ last'.op = "answer" /\ last.op # "answer"
StateButSelection ==
    <<history, index, crashed, instanceState, synced, isLoading, answer,
      confirmation, recognition, pendingAnswer, viewTransform, tool, dpr, pointers,
      lastGesture, isDrawing, currentStrokePoints, latestPointerPosition, draggedItem,
      selectionStartPoint, drawingShape>>
ProgramState == <<StateButSelection, selectionRect>>
SameError ==
    error' = error

\* C39: at most one external call, recognition or answer, is in flight: a
\* trigger that arrives while the loading flag is set starts no call and
\* changes no state, and every call that was started clears the loading flag
\* in the end, whether it succeeds or fails.
C39_OneCallInFlight ==
    /\ []AtMostOneCall
    /\ [][(AnswerTrigger /\ isLoading) => (SameError /\ UNCHANGED ProgramState)]_<<ProgramState, last>>
    /\ isLoading ~> ~isLoading

\* The same with the selection rectangle left out of the state that a
\* refused trigger keeps.
OneCallInFlightButSelection ==
    /\ []AtMostOneCall
    /\ [][(AnswerTrigger /\ isLoading) => (SameError /\ UNCHANGED StateButSelection)]_<<ProgramState, last>>
    /\ isLoading ~> ~isLoading
\* A click on the Answer button was refused while a recognition was pending,
\* and the selection is gone.
AnswerRefusedSelectionLost ==
    /\ last.op = "answer"
    /\ recognition # Null
    /\ pendingAnswer = Null
    /\ selectionRect = Null

=========================================================================
